---------------------------- MODULE Spec2Model ----------------------------
(***************************************************************************)
(* GenomicConsensus: the worker pool, the result channel and the result    *)
(* collector (ResultCollector.py, quiver/quiver.py), the window consensus  *)
(* of quiverConsensusAndVariantsForWindow, and the VCF lines of            *)
(* VariantsVcfWriter (io/VariantsVcfWriter.py).                            *)
(***************************************************************************)
EXTENDS Integers, Sequences, FiniteSets, TLC

(***************************************************************************)
(* Bounds of the model.                                                    *)
(***************************************************************************)
NumWorkers == 2        \* options.numWorkers
ContigLen  == 4        \* length of every reference contig
Stride     == 2        \* options.referenceChunkSize: length of a planned window
MaxQueueSize == 2
MaxFeed == 3      \* largest limit of the results queue

RefIds  == 1 .. 2      \* reference.byName: the contigs of the reference
Workers == 1 .. NumWorkers

VARIABLES
    referenceWindows,   \* options.referenceWindows: user-declared spans, a sequence
    outputs,            \* the output files requested: subset of {"fasta","fastq","gff","vcf"}
    queueKind,          \* discipline of the injected resultsQueue: "fifo" | "unordered"
    queueSize,          \* capacity of the injected resultsQueue; 0: no limit
    collectorClass,     \* "ResultCollector" | "QuiverResultCollector"
    workQueue,          \* the task source: sequence of windows not yet popped
    wpc,                \* position of each worker: "idle" | "busy" | "done"
    wtask,              \* the window a busy worker holds
    resultsQueue,       \* per producer, the items pushed and not yet dequeued
    cpc,                \* position of the collector: "start" | "loop" | "finished"
    sentinelsReceived,  \* local of ResultCollector._run
    collector,          \* the fields of the collector object (self.*)
    pushed,             \* history: windows whose result was pushed by a worker
    received,           \* history: windows whose result onResult has handled, in order
    flushCount,         \* history: completion flushes per contig
    hist,               \* history: pops per window, pushes per window and per worker
    refWindow,          \* the window quiverConsensusAndVariantsForWindow is called on
    reads,              \* (tStart, tEnd, gapped) of the rows readsInWindow returns, by tStart
    apc,                \* position in quiverConsensusAndVariantsForWindow
    intervals,          \* local: the k-spanned intervals kept
    allIntervals,       \* local: kept intervals and coverage gaps, sorted
    subConsensi,        \* local: the consensus of each interval handled so far
    windowCss,          \* the consensus returned for the window (css), once glued
    vcf,                \* the fields of a VariantsVcfWriter (self.*)
    vcfVariants,        \* the argument of VariantsVcfWriter.writeVariants
    vpc                 \* position of the VCF writer's caller: "idle" | "open" | "written"

poolVars == << referenceWindows, outputs, queueKind, queueSize, collectorClass, workQueue, wpc,
               wtask, resultsQueue, cpc, sentinelsReceived, collector, pushed,
               received, flushCount, hist >>

windowVars == << refWindow, reads, apc, intervals, allIntervals, subConsensi, windowCss >>

vcfVars == << vcf, vcfVariants, vpc >>

vars == << poolVars, windowVars, vcfVars >>

(***************************************************************************)
(* Generic helpers.                                                        *)
(***************************************************************************)
Range(s) == { s[i] : i \in DOMAIN s }

Min(a, b) == IF a <= b THEN a ELSE b

RECURSIVE Flatten(_)
Flatten(ss) == IF ss = << >> THEN << >> ELSE Head(ss) \o Flatten(Tail(ss))

RECURSIVE SumLengths(_)
\* total of refEnd - refStart over a sequence of windows
SumLengths(ws) ==
    IF ws = << >> THEN 0 ELSE (Head(ws)[3] - Head(ws)[2]) + SumLengths(Tail(ws))

RemoveAt(s, i) == [ j \in 1 .. (Len(s) - 1) |-> IF j < i THEN s[j] ELSE s[j + 1] ]

\* Python tuple comparison of windows (refId, refStart, refEnd)
WindowLess(a, b) ==
    \/ a[1] < b[1]
    \/ a[1] = b[1] /\ a[2] < b[2]
    \/ a[1] = b[1] /\ a[2] = b[2] /\ a[3] < b[3]

\* Python dict / defaultdict(list) as a function on the set of present keys
EmptyDict == [ k \in {} |-> << >> ]
DictGet(d, k) == IF k \in DOMAIN d THEN d[k] ELSE << >>
DictPut(d, k, v) == [ x \in (DOMAIN d) \cup {k} |-> IF x = k THEN v ELSE d[x] ]
DictDel(d, k) == [ x \in (DOMAIN d) \ {k} |-> d[x] ]

(***************************************************************************)
(* The reference registry and the window planner (reference.py).           *)
(***************************************************************************)
\* refEntry.length
RefLength(refId) == ContigLen

\* refEntry.fullName
RefName(refId) == << "contig", refId >>

\* reference.enumerateSpans: the contiguous spans of refId to be analyzed, the
\* whole contig when the user declared no windows
enumerateSpans(refId, refWindows) ==
    IF refWindows = << >>
    THEN << << refId, 0, RefLength(refId) >> >>
    ELSE SelectSeq(refWindows, LAMBDA w : w[1] = refId)

\* reference.numReferenceBases: the bases a contig must accumulate
numReferenceBases(refId, refWindows) == SumLengths(enumerateSpans(refId, refWindows))

\* the windows of at most `stride` bases that tile one span
ChunksOfSpan(span, stride) ==
    LET n == ((span[3] - span[2]) + stride - 1) \div stride
    IN  [ i \in 1 .. n |->
            << span[1], span[2] + (i - 1) * stride, Min(span[2] + i * stride, span[3]) >> ]

\* reference.enumerateChunks: the planned windows (tasks) of one contig
enumerateChunks(refId, stride, refWindows) ==
    LET spans == enumerateSpans(refId, refWindows)
    IN  Flatten([ i \in 1 .. Len(spans) |-> ChunksOfSpan(spans[i], stride) ])

\* the task list handed to the worker pool: every contig's windows
AllChunks(refWindows) ==
    Flatten([ refId \in RefIds |-> enumerateChunks(refId, Stride, refWindows) ])

\* the user-declared window lists the model draws options.referenceWindows from
ReferenceWindowsChoices ==
    { << >>,
      << << 1, 1, ContigLen - 1 >> >>,
      << << 1, 0, 1 >>, << 1, 1, ContigLen >> >>,
      << << 1, 3, ContigLen >>, << 1, 0, 1 >>, << 2, 0, ContigLen >> >> }

OutputChoices ==
    { {}, {"fasta"}, {"gff", "fastq"}, {"fasta", "fastq", "gff", "vcf"} }

(***************************************************************************)
(* What a worker computes for a window (the consensus engine is external:  *)
(* a chunk carries the reference positions it covers).                     *)
(***************************************************************************)
None == [ type |-> "None" ]

\* Consensus(refWindow, sequence, confidence)
Consensus(window) ==
    [ refWindow  |-> window,
      sequence   |-> [ i \in 1 .. (window[3] - window[2]) |-> window[2] + i - 1 ],
      confidence |-> [ i \in 1 .. (window[3] - window[2]) |->
                          10 * window[1] + window[2] + i - 1 ] ]

\* the variants called in a window: one per odd reference position
VariantsInWindow(window) ==
    LET odd == SelectSeq([ i \in 1 .. (window[3] - window[2]) |-> window[2] + i - 1 ],
                         LAMBDA p : p % 2 = 1)
    IN  [ i \in 1 .. Len(odd) |->
            [ refId |-> window[1], refStart |-> odd[i],
              confidence |-> 30 + 10 * odd[i], coverage |-> 4 + odd[i] ] ]

referenceChunkOverlap == 5

Max(a, b) == IF a >= b THEN a ELSE b

\* reference.enlargedReferenceWindow: the window widened by `overlap` on both
\* sides, within the contig
enlargedReferenceWindow(window, overlap) ==
    << window[1], Max(0, window[2] - overlap), Min(RefLength(window[1]), window[3] + overlap) >>

\* mutant: the variants of the enlarged window are all kept
ClipVariants_KeepAll(variants_, refStart, refEnd) == variants_

\* variants = [ v for v in variants_ if refStart <= v.refStart < refEnd ]
ClipVariants(variants_, refStart, refEnd) ==
    SelectSeq(variants_, LAMBDA v : refStart <= v.refStart /\ v.refStart < refEnd)

\* QuiverWorker.onChunk: consensus and variants are called on the enlarged
\* window and restricted to the window; the consensus aligns to the reference
\* base for base, so targetPositions[i] = i
onChunk(referenceWindow) ==
    LET refId    == referenceWindow[1]
        refStart == referenceWindow[2]
        refEnd   == referenceWindow[3]
        eWindow  == enlargedReferenceWindow(referenceWindow, referenceChunkOverlap)
        eStart   == eWindow[2]
        css_     == Consensus(eWindow)
        variants_ == VariantsInWindow(eWindow)
        cssStart == refStart - eStart
        cssEnd   == refEnd - eStart
    IN  [ type |-> "result",
          referenceId    |-> refId,
          referenceStart |-> refStart,
          referenceEnd   |-> refEnd,
          consensus      |-> SubSeq(css_.sequence, cssStart + 1, cssEnd),
          qv             |-> SubSeq(css_.confidence, cssStart + 1, cssEnd),
          variants       |-> ClipVariants(variants_, refStart, refEnd) ]

\* the item a worker puts on the results queue for a window: a
\* QuiverWindowSummary, or (window, (css, variants)) for the base collector
WorkerResult(class, window) ==
    IF class = "QuiverResultCollector"
    THEN onChunk(window)
    ELSE [ type |-> "result",
           window   |-> window,
           css      |-> [ refWindow  |-> window,
                          sequence   |-> onChunk(window).consensus,
                          confidence |-> onChunk(window).qv ],
           variants |-> onChunk(window).variants ]

\* the window an item on the queue is the result of
WindowOf(item) ==
    IF "window" \in DOMAIN item
    THEN item.window
    ELSE << item.referenceId, item.referenceStart, item.referenceEnd >>

(***************************************************************************)
(* Ordering and merging (consensus.py, windows.py, variants.py).           *)
(***************************************************************************)
\* Python sorted(): the stable ascending arrangement of s, keys[i] being the
\* (three-part) tuple that element s[i] compares by
Sorted(s, keys) ==
    LET rank(i) == 1 + Cardinality({ j \in DOMAIN s :
                        \/ WindowLess(keys[j], keys[i])
                        \/ keys[j] = keys[i] /\ j < i })
    IN  [ k \in DOMAIN s |-> s[CHOOSE i \in DOMAIN s : rank(i) = k] ]

\* windows.windowsIntersect: half-open windows of one contig share a position
windowsIntersect(w1, w2) == w1[1] = w2[1] /\ w1[3] > w2[2] /\ w2[3] > w1[2]

\* Consensus objects compare by their refWindow
ConsensusKeys(consensi) == [ i \in DOMAIN consensi |-> consensi[i].refWindow ]

\* Variant objects compare by (refId, refStart)
VariantKeys(variants) ==
    [ i \in DOMAIN variants |-> << variants[i].refId, variants[i].refStart, 0 >> ]

\* consensus.join: the chunks strung together in ascending window order
join(consensi) ==
    LET sortedConsensi == Sorted(consensi, ConsensusKeys(consensi))
    IN  [ sequence   |-> Flatten([ i \in DOMAIN sortedConsensi |-> sortedConsensi[i].sequence ]),
          confidence |-> Flatten([ i \in DOMAIN sortedConsensi |-> sortedConsensi[i].confidence ]) ]

\* consensus.consensusContigName: the record name made of span name and algorithm
consensusContigName(spanName, algorithmName) == << spanName, algorithmName >>

AlgorithmName == "plurality"

(***************************************************************************)
(* ResultCollector (ResultCollector.py).                                   *)
(***************************************************************************)
\* a writer handle: "None" when the output was not requested
Writer(requested) == IF requested THEN "open" ELSE "None"

\* the collector object before onStart has run
NewCollector ==
    [ referenceBasesProcessedById |-> EmptyDict,
      variantsByRefId             |-> EmptyDict,
      consensusChunksByRefId      |-> EmptyDict,
      fastaWriter |-> "None", fastqWriter |-> "None",
      gffWriter   |-> "None", vcfWriter   |-> "None",
      allVariants     |-> << >>,
      consensusChunks |-> EmptyDict,
      calls |-> << >>,       \* every call made on an output writer, in program order
      log   |-> << >> ]      \* every message handed to logging, in program order

\* ResultCollector.onStart
onStart(self) ==
    [ self EXCEPT
        !.referenceBasesProcessedById = [ refId \in RefIds |-> 0 ],
        !.variantsByRefId        = EmptyDict,
        !.consensusChunksByRefId = EmptyDict,
        !.fastaWriter = Writer("fasta" \in outputs),
        !.fastqWriter = Writer("fastq" \in outputs),
        !.gffWriter   = Writer("gff" \in outputs),
        !.vcfWriter   = Writer("vcf" \in outputs) ]

\* mutant: the window end is added instead of the window length
_recordNewResults_AddsEnd(self, window, css, variants) ==
    LET refId == window[1]
    IN  [ self EXCEPT
            !.consensusChunksByRefId = DictPut(@, refId, Append(DictGet(@, refId), css)),
            !.variantsByRefId        = DictPut(@, refId, DictGet(@, refId) \o variants),
            !.referenceBasesProcessedById[refId] = @ + window[3] ]

\* ResultCollector._recordNewResults
_recordNewResults(self, window, css, variants) ==
    LET refId == window[1]
    IN  [ self EXCEPT
            !.consensusChunksByRefId = DictPut(@, refId, Append(DictGet(@, refId), css)),
            !.variantsByRefId        = DictPut(@, refId, DictGet(@, refId) \o variants),
            !.referenceBasesProcessedById[refId] = @ + (window[3] - window[2]) ]

\* mutant: the span start is not looked at
SpanName_EndOnly(refId, s, e) ==
    IF e = RefLength(refId)
    THEN RefName(refId)
    ELSE RefName(refId) \o << s, e >>

\* the output name of a span (lines 124-127)
SpanName(refId, s, e) ==
    IF (s = 0) /\ (e = RefLength(refId))
    THEN RefName(refId)
    ELSE RefName(refId) \o << s, e >>

\* mutant: every chunk of the contig is taken, whatever the span
chunksThisSpan_All(chunks, span) == chunks

\* the chunks pertaining to a span (lines 130-131)
chunksThisSpan(chunks, span) ==
    SelectSeq(chunks, LAMBDA chunk : windowsIntersect(chunk.refWindow, span))

\* the writer calls of the loop over the spans of a completed contig
SpanCalls(self, refId, span) ==
    LET cssName == consensusContigName(SpanName(refId, span[2], span[3]), AlgorithmName)
        css     == join(chunksThisSpan(self.consensusChunksByRefId[refId], span))
    IN  (IF self.fastaWriter # "None"
         THEN << [ writer |-> "fasta", op |-> "writeRecord", span |-> span,
                   name |-> cssName, sequence |-> css.sequence ] >>
         ELSE << >>)
        \o
        (IF self.fastqWriter # "None"
         THEN << [ writer |-> "fastq", op |-> "writeRecord", span |-> span,
                   name |-> cssName, sequence |-> css.sequence,
                   confidence |-> css.confidence ] >>
         ELSE << >>)

\* mutant: the variants are handed over as they were accumulated
VariantCalls_Unsorted(self, refId) ==
    LET variants == self.variantsByRefId[refId]
    IN  (IF self.gffWriter # "None"
         THEN << [ writer |-> "gff", op |-> "writeVariants", refId |-> refId,
                   variants |-> variants ] >>
         ELSE << >>)
        \o
        (IF self.vcfWriter # "None"
         THEN << [ writer |-> "vcf", op |-> "writeVariants", refId |-> refId,
                   variants |-> variants ] >>
         ELSE << >>)

\* the writer calls handing over the sorted variants of a completed contig
VariantCalls(self, refId) ==
    IF self.gffWriter # "None" \/ self.vcfWriter # "None"
    THEN LET variants == Sorted(self.variantsByRefId[refId],
                                 VariantKeys(self.variantsByRefId[refId]))
         IN  (IF self.gffWriter # "None"
              THEN << [ writer |-> "gff", op |-> "writeVariants", refId |-> refId,
                        variants |-> variants ] >>
              ELSE << >>)
             \o
             (IF self.vcfWriter # "None"
              THEN << [ writer |-> "vcf", op |-> "writeVariants", refId |-> refId,
                        variants |-> variants ] >>
              ELSE << >>)
    ELSE << >>

\* mutant: the completion test never fires on the exact total
ContigCompleted_Past(basesProcessed, requiredBases) == basesProcessed > requiredBases

\* mutant: the completion test fires on every chunk up to the total
ContigCompleted_Early(basesProcessed, requiredBases) == basesProcessed <= requiredBases

\* the completion test of a contig (lines 100-102)
ContigCompleted(basesProcessed, requiredBases) == basesProcessed = requiredBases

\* mutant: the whole contig is required, whatever the user declared
RequiredBases_ContigLength(refId) == RefLength(refId)

\* requiredBases as _flushContigIfCompleted obtains it (line 101)
RequiredBases(refId) == numReferenceBases(refId, referenceWindows)

\* mutant: the flush starts the count of the contig afresh
_flushContigIfCompleted_ResetsCount(self, window) ==
    LET refId == window[1]
        spans == enumerateSpans(refId, referenceWindows)
    IN  IF ContigCompleted(self.referenceBasesProcessedById[refId], RequiredBases(refId))
        THEN [ self EXCEPT
                 !.calls = @ \o VariantCalls(self, refId)
                             \o Flatten([ i \in DOMAIN spans |-> SpanCalls(self, refId, spans[i]) ]),
                 !.referenceBasesProcessedById[refId] = 0,
                 !.variantsByRefId        = DictDel(@, refId),
                 !.consensusChunksByRefId = DictDel(@, refId) ]
        ELSE self

\* mutant: the chunks of a completed contig are kept when no sequence writer
\* is there to take them
_flushContigIfCompleted_KeepsUnwritten(self, window) ==
    LET refId == window[1]
        spans == enumerateSpans(refId, referenceWindows)
    IN  IF ContigCompleted(self.referenceBasesProcessedById[refId], RequiredBases(refId))
        THEN [ self EXCEPT
                 !.calls = @ \o VariantCalls(self, refId)
                             \o Flatten([ i \in DOMAIN spans |-> SpanCalls(self, refId, spans[i]) ]),
                 !.variantsByRefId        = DictDel(@, refId),
                 !.consensusChunksByRefId =
                     IF self.fastaWriter = "None" /\ self.fastqWriter = "None"
                     THEN @ ELSE DictDel(@, refId) ]
        ELSE self

\* ResultCollector._flushContigIfCompleted
_flushContigIfCompleted(self, window) ==
    LET refId          == window[1]
        basesProcessed == self.referenceBasesProcessedById[refId]
        requiredBases  == RequiredBases(refId)
        spans          == enumerateSpans(refId, referenceWindows)
    IN  IF ContigCompleted(basesProcessed, requiredBases)
        THEN [ self EXCEPT
                 !.calls = @ \o VariantCalls(self, refId)
                             \o Flatten([ i \in DOMAIN spans |-> SpanCalls(self, refId, spans[i]) ]),
                 !.variantsByRefId        = DictDel(@, refId),
                 !.consensusChunksByRefId = DictDel(@, refId) ]
        ELSE self

\* ResultCollector.onResult
onResult(self, result) ==
    _flushContigIfCompleted(
        _recordNewResults(self, result.window, result.css, result.variants),
        result.window)

\* closing a writer handle, when there is one
Close(writer) == IF writer # "None" THEN "closed" ELSE writer

\* ResultCollector.onFinish
onFinish(self) ==
    [ self EXCEPT
        !.fastaWriter = Close(@), !.fastqWriter = Close(@),
        !.gffWriter   = Close(@), !.vcfWriter   = Close(@),
        !.log = @ \o << [ level |-> "info", message |-> "Analysis completed." ],
                        [ level |-> "info", message |-> "Output files completed." ] >> ]

(***************************************************************************)
(* QuiverResultCollector (quiver/quiver.py), mixed in before the base      *)
(* class, so that its onStart / onResult / onFinish are the ones _run      *)
(* calls.                                                                  *)
(***************************************************************************)
variantConfidenceThreshold == 40
variantCoverageThreshold   == 5

\* QuiverResultCollector.onStart
QuiverResultCollector_onStart(self) ==
    [ self EXCEPT !.allVariants = << >>, !.consensusChunks = EmptyDict ]

\* ContigConsensusChunk(refStart, refEnd, consensus, qv)
ContigConsensusChunk(result) ==
    [ refStart  |-> result.referenceStart, refEnd |-> result.referenceEnd,
      consensus |-> result.consensus,      qv     |-> result.qv ]

\* QuiverResultCollector.onResult
QuiverResultCollector_onResult(self, result) ==
    [ self EXCEPT
        !.allVariants     = @ \o result.variants,
        !.consensusChunks = DictPut(@, result.referenceId,
                                    Append(DictGet(@, result.referenceId),
                                           ContigConsensusChunk(result))) ]

\* namedtuple comparison of ContigConsensusChunk: by refStart, then refEnd
ChunkKeys(chunks) == [ i \in DOMAIN chunks |-> << chunks[i].refStart, chunks[i].refEnd, 0 >> ]

\* mutant: the chunks are concatenated in arrival order
SortedChunks_Unsorted(unsortedChunks) == unsortedChunks

\* chunks = sorted(unsortedChunks) (lines 303, 312)
SortedChunks(unsortedChunks) == Sorted(unsortedChunks, ChunkKeys(unsortedChunks))

\* the keys of a dict over contig ids, in iteration order
KeysInOrder(d) ==
    SelectSeq([ refId \in RefIds |-> refId ], LAMBDA refId : refId \in DOMAIN d)

\* mutant: a variant at a threshold passes
FilteredVariants_AtThreshold(self, refId) ==
    LET filtered == SelectSeq(self.allVariants,
                              LAMBDA v : /\ v.confidence >= variantConfidenceThreshold
                                         /\ v.coverage >= variantCoverageThreshold
                                         /\ v.refId = refId)
    IN  Sorted(filtered, VariantKeys(filtered))

\* the variants passing the thresholds, of one contig, sorted (lines 288-295)
FilteredVariants(self, refId) ==
    LET filtered == SelectSeq(self.allVariants,
                              LAMBDA v : /\ v.confidence > variantConfidenceThreshold
                                         /\ v.coverage > variantCoverageThreshold
                                         /\ v.refId = refId)
    IN  Sorted(filtered, VariantKeys(filtered))

\* writeVariantsGff: one writeRecord per filtered variant, contig by contig
writeVariantsGff(self) ==
    Flatten([ refId \in RefIds |->
        LET vs == FilteredVariants(self, refId)
        IN  [ i \in DOMAIN vs |->
                [ writer |-> "gff", op |-> "writeRecord", variant |-> vs[i] ] ] ])

\* the FASTA / FASTQ records of onFinish: one per contig that has chunks
QuiverRecords(self, writer) ==
    LET ids == KeysInOrder(self.consensusChunks)
    IN  [ k \in DOMAIN ids |->
            LET chunks == SortedChunks(self.consensusChunks[ids[k]])
                css    == Flatten([ i \in DOMAIN chunks |-> chunks[i].consensus ])
                qv     == Flatten([ i \in DOMAIN chunks |-> chunks[i].qv ])
                header == << RefName(ids[k]), "quiver" >>
            IN  IF writer = "fasta"
                THEN [ writer |-> "fasta", op |-> "writeRecord", refId |-> ids[k],
                       name |-> header, sequence |-> css ]
                ELSE [ writer |-> "fastq", op |-> "writeRecord", refId |-> ids[k],
                       name |-> header, sequence |-> css, confidence |-> qv ] ]

\* QuiverResultCollector.onFinish
QuiverResultCollector_onFinish(self) ==
    [ self EXCEPT
        !.calls = @ \o (IF "gff" \in outputs THEN writeVariantsGff(self) ELSE << >>)
                    \o (IF "fasta" \in outputs THEN QuiverRecords(self, "fasta") ELSE << >>)
                    \o (IF "fastq" \in outputs THEN QuiverRecords(self, "fastq") ELSE << >>) ]

(***************************************************************************)
(* The worker pool (Worker.py): pop a window, compute, push the result;    *)
(* on exhaustion of the task source push one termination marker and stop.  *)
(***************************************************************************)
NoWindow == << 0, 0, 0 >>

\* the number of items on the result channel
QueuedItems(queue) == Len(Flatten([ w \in Workers |-> queue[w] ]))

\* put() goes through at once when the queue has no limit (size 0) or holds
\* fewer than `size` items; otherwise the producer waits
HasRoom(queue, size) == size = 0 \/ QueuedItems(queue) < size

\* nothing has been popped or pushed yet
NewHistory(tasks) ==
    [ popped      |-> [ window \in Range(tasks) |-> 0 ],
      results     |-> [ window \in Range(tasks) |-> 0 ],
      markers     |-> [ w \in Workers |-> 0 ],
      afterMarker |-> [ w \in Workers |-> 0 ] ]

\* mutant: a worker may stop while tasks are left
TaskSourceExhausted_Anytime(tasks) == TRUE

\* the task source has nothing left to pop
TaskSourceExhausted(tasks) == tasks = << >>

\* pop one window task from the shared task source
WorkerGet(w) ==
    /\ wpc[w] = "idle"
    /\ workQueue # << >>
    /\ wpc' = [ wpc EXCEPT ![w] = "busy" ]
    /\ wtask' = [ wtask EXCEPT ![w] = Head(workQueue) ]
    /\ workQueue' = Tail(workQueue)
    /\ hist' = [ hist EXCEPT !.popped[Head(workQueue)] = @ + 1 ]
    /\ UNCHANGED << windowVars, vcfVars >>
    /\ UNCHANGED << referenceWindows, outputs, queueKind, queueSize, collectorClass, resultsQueue,
                    cpc, sentinelsReceived, collector, pushed, received, flushCount >>

\* run the window and push its summary onto the result channel
WorkerPut(w) ==
    /\ wpc[w] = "busy"
    /\ HasRoom(resultsQueue, queueSize)
    /\ hist' = [ hist EXCEPT !.results[wtask[w]] = @ + 1,
                             !.afterMarker[w] = @ + hist.markers[w] ]
    /\ resultsQueue' = [ resultsQueue EXCEPT
                           ![w] = Append(@, WorkerResult(collectorClass, wtask[w])) ]
    /\ pushed' = pushed \cup { wtask[w] }
    /\ wpc' = [ wpc EXCEPT ![w] = "idle" ]
    /\ wtask' = [ wtask EXCEPT ![w] = NoWindow ]
    /\ UNCHANGED << windowVars, vcfVars >>
    /\ UNCHANGED << referenceWindows, outputs, queueKind, queueSize, collectorClass, workQueue,
                    cpc, sentinelsReceived, collector, received, flushCount >>

\* on task-source exhaustion, push one termination marker and stop
WorkerExit(w) ==
    /\ wpc[w] = "idle"
    /\ TaskSourceExhausted(workQueue)
    /\ HasRoom(resultsQueue, queueSize)
    /\ hist' = [ hist EXCEPT !.markers[w] = @ + 1 ]
    /\ resultsQueue' = [ resultsQueue EXCEPT ![w] = Append(@, None) ]
    /\ wpc' = [ wpc EXCEPT ![w] = "done" ]
    /\ UNCHANGED << windowVars, vcfVars >>
    /\ UNCHANGED << referenceWindows, outputs, queueKind, queueSize, collectorClass, workQueue,
                    wtask, cpc, sentinelsReceived, collector, pushed, received,
                    flushCount >>

(***************************************************************************)
(* ResultCollector._run.                                                   *)
(***************************************************************************)
\* mutant: the loop gives up one sentinel early
KeepCollecting_OneShort(sentinels) == sentinels < NumWorkers - 1

\* mutant: the loop goes on after the last sentinel
KeepCollecting_OneMore(sentinels) == sentinels <= NumWorkers

\* the loop condition (line 27)
KeepCollecting(sentinels) == sentinels < NumWorkers

\* the items resultsQueue.get() may return: the head of a producer's stream
\* under a FIFO queue, any item under a queue that gives no ordering
Gettable(w, i) ==
    /\ i \in DOMAIN resultsQueue[w]
    /\ queueKind = "fifo" => i = 1

\* self.onStart()
Start ==
    /\ cpc = "start"
    /\ cpc' = "loop"
    /\ collector' = IF collectorClass = "QuiverResultCollector"
                    THEN QuiverResultCollector_onStart(collector)
                    ELSE onStart(collector)
    /\ UNCHANGED << windowVars, vcfVars >>
    /\ UNCHANGED << referenceWindows, outputs, queueKind, queueSize, collectorClass, workQueue,
                    wpc, wtask, resultsQueue, sentinelsReceived, pushed, received,
                    flushCount, hist >>

\* one iteration of the loop that dequeues a sentinel
GetSentinel(w, i) ==
    /\ cpc = "loop"
    /\ KeepCollecting(sentinelsReceived)
    /\ Gettable(w, i)
    /\ resultsQueue[w][i] = None
    /\ resultsQueue' = [ resultsQueue EXCEPT ![w] = RemoveAt(@, i) ]
    /\ sentinelsReceived' = sentinelsReceived + 1
    /\ UNCHANGED << windowVars, vcfVars >>
    /\ UNCHANGED << referenceWindows, outputs, queueKind, queueSize, collectorClass, workQueue,
                    wpc, wtask, cpc, collector, pushed, received, flushCount, hist >>

\* one iteration of the loop that dequeues a result and runs onResult on it
GetResult(w, i) ==
    /\ cpc = "loop"
    /\ KeepCollecting(sentinelsReceived)
    /\ Gettable(w, i)
    /\ resultsQueue[w][i] # None
    /\ LET result == resultsQueue[w][i]
           refId  == WindowOf(result)[1]
       IN  /\ collector' = IF collectorClass = "QuiverResultCollector"
                           THEN QuiverResultCollector_onResult(collector, result)
                           ELSE onResult(collector, result)
           /\ received' = Append(received, WindowOf(result))
           /\ flushCount' =
                IF /\ collectorClass = "ResultCollector"
                   /\ refId \notin DOMAIN collector'.consensusChunksByRefId
                THEN [ flushCount EXCEPT ![refId] = @ + 1 ]
                ELSE flushCount
    /\ resultsQueue' = [ resultsQueue EXCEPT ![w] = RemoveAt(@, i) ]
    /\ UNCHANGED << windowVars, vcfVars >>
    /\ UNCHANGED << referenceWindows, outputs, queueKind, queueSize, collectorClass, workQueue,
                    wpc, wtask, cpc, sentinelsReceived, pushed, hist >>

\* the loop is left and self.onFinish() runs
Finish ==
    /\ cpc = "loop"
    /\ ~KeepCollecting(sentinelsReceived)
    /\ cpc' = "finished"
    /\ collector' = IF collectorClass = "QuiverResultCollector"
                    THEN QuiverResultCollector_onFinish(collector)
                    ELSE onFinish(collector)
    /\ UNCHANGED << windowVars, vcfVars >>
    /\ UNCHANGED << referenceWindows, outputs, queueKind, queueSize, collectorClass, workQueue,
                    wpc, wtask, resultsQueue, sentinelsReceived, pushed, received,
                    flushCount, hist >>

\* the state after construction, for a results queue of one of the given sizes
InitPool(sizes) ==
    /\ referenceWindows \in ReferenceWindowsChoices
    /\ outputs \in OutputChoices
    /\ queueKind \in { "fifo", "unordered" }
    /\ queueSize \in sizes
    /\ collectorClass \in { "ResultCollector", "QuiverResultCollector" }
    /\ workQueue = AllChunks(referenceWindows)
    /\ wpc = [ w \in Workers |-> "idle" ]
    /\ wtask = [ w \in Workers |-> NoWindow ]
    /\ resultsQueue = [ w \in Workers |-> << >> ]
    /\ cpc = "start"
    /\ sentinelsReceived = 0
    /\ collector = NewCollector
    /\ pushed = {}
    /\ received = << >>
    /\ flushCount = [ refId \in RefIds |-> 0 ]
    /\ hist = NewHistory(workQueue)
    /\ refWindow = NoWindow
    /\ reads = << >>
    /\ apc = "idle"
    /\ intervals = << >>
    /\ allIntervals = << >>
    /\ subConsensi = << >>
    /\ windowCss = None
    /\ vcf = None
    /\ vcfVariants = << >>
    /\ vpc = "idle"

\* a results queue without a limit
Init == InitPool({ 0 })

Next ==
    \/ \E w \in Workers : WorkerGet(w)
    \/ \E w \in Workers : WorkerPut(w)
    \/ \E w \in Workers : WorkerExit(w)
    \/ Start
    \/ \E w \in Workers : \E i \in 1 .. Len(resultsQueue[w]) : GetSentinel(w, i)
    \/ \E w \in Workers : \E i \in 1 .. Len(resultsQueue[w]) : GetResult(w, i)
    \/ Finish

Spec == Init /\ [][Next]_vars

(***************************************************************************)
(* The collector on its own, handed results for windows of any kind: the   *)
(* windows may repeat or overlap, as no planner stands behind them.        *)
(***************************************************************************)
\* the windows of positive length a result may be about: every stretch of
\* the first contig, and two stretches of the second
FeedWindows ==
    { w \in { 1 } \X (0 .. ContigLen - 1) \X (1 .. ContigLen) : w[2] < w[3] }
        \cup { << 2, 0, ContigLen >>, << 2, 1, ContigLen >> }

\* ResultCollector.onResult called with the result of a window
FeedResult(window) ==
    /\ cpc = "loop"
    /\ Len(received) < MaxFeed
    /\ collector' = onResult(collector, WorkerResult(collectorClass, window))
    /\ received' = Append(received, window)
    /\ flushCount' =
         IF window[1] \notin DOMAIN collector'.consensusChunksByRefId
         THEN [ flushCount EXCEPT ![window[1]] = @ + 1 ]
         ELSE flushCount
    /\ UNCHANGED << windowVars, vcfVars >>
    /\ UNCHANGED << referenceWindows, outputs, queueKind, queueSize, collectorClass, workQueue,
                    wpc, wtask, resultsQueue, cpc, sentinelsReceived, pushed, hist >>

InitFeed ==
    /\ Init
    /\ collectorClass = "ResultCollector"
    /\ queueKind = "fifo"
    /\ outputs \in { {}, {"fasta", "fastq", "gff", "vcf"} }

NextFeed ==
    \/ Start
    \/ \E window \in FeedWindows : FeedResult(window)

SpecFeed == InitFeed /\ [][NextFeed]_vars

\* a step of worker w
WorkerStep(w) == WorkerGet(w) \/ WorkerPut(w) \/ WorkerExit(w)

\* a step of the collector
CollectorStep ==
    \/ Start
    \/ \E w \in Workers : \E i \in 1 .. Len(resultsQueue[w]) : GetSentinel(w, i)
    \/ \E w \in Workers : \E i \in 1 .. Len(resultsQueue[w]) : GetResult(w, i)
    \/ Finish

\* a results queue of any size up to MaxQueueSize, or without a limit; the
\* output files requested and the class of the collector play no part in who
\* waits for whom: no output file, the base collector
InitBounded ==
    /\ InitPool(0 .. MaxQueueSize)
    /\ outputs = {}
    /\ collectorClass = "ResultCollector"

\* the workers and the collector are processes or threads of their own: as
\* long as one of them can take a step, a step is taken
SpecBounded ==
    /\ InitBounded
    /\ [][Next]_vars
    /\ WF_vars(Next)

\* the workers never look at the output files requested: none are
InitWorkers == Init /\ outputs = {}

\* every worker is a process or thread of its own and keeps running
SpecWorkers ==
    /\ InitWorkers
    /\ [][Next]_vars
    /\ \A w \in Workers : WF_vars(WorkerStep(w))

(***************************************************************************)
(* Vocabulary of the properties.                                           *)
(***************************************************************************)
\* the planned windows of a contig
PlannedWindows(refId) == Range(enumerateChunks(refId, Stride, referenceWindows))

\* the windows of a contig whose result the collector has handled, in arrival order
ReceivedOf(refId) == SelectSeq(received, LAMBDA w : w[1] = refId)

\* every planned window of the contig has been handled by the collector
AllDelivered(refId) == PlannedWindows(refId) \subseteq Range(received)

\* the writer calls that concern a contig
CallsOf(refId) ==
    SelectSeq(collector.calls,
              LAMBDA c : IF "span" \in DOMAIN c THEN c.span[1] = refId ELSE c.refId = refId)

RECURSIVE SentinelsQueuedUpTo(_)
\* the termination markers still on the results queues of workers 1 .. n
SentinelsQueuedUpTo(n) ==
    IF n = 0 THEN 0
    ELSE Len(SelectSeq(resultsQueue[n], LAMBDA item : item = None)) + SentinelsQueuedUpTo(n - 1)

IsBase == collectorClass = "ResultCollector"

(***************************************************************************)
(* C1: _run leaves its loop and calls onFinish after it has dequeued       *)
(* exactly numWorkers termination markers, however they interleave with    *)
(* results; with fewer dequeued, onFinish is not called and the only steps *)
(* of the collector are further dequeues.                                  *)
(***************************************************************************)
C1_ShutdownAfterAllSentinels ==
    /\ sentinelsReceived = Cardinality({ w \in Workers : wpc[w] = "done" })
                               - SentinelsQueuedUpTo(NumWorkers)
    /\ sentinelsReceived <= NumWorkers
    /\ cpc = "finished" => sentinelsReceived = NumWorkers
    /\ cpc = "loop" => (ENABLED Finish <=> sentinelsReceived = NumWorkers)
    /\ (cpc = "loop" /\ sentinelsReceived = NumWorkers) =>
           ~ENABLED (\E w \in Workers : \E i \in 1 .. Len(resultsQueue[w]) :
                        GetSentinel(w, i) \/ GetResult(w, i))

\* the collector has finished after results and markers of both workers interleaved
C1_Witness ==
    /\ cpc = "finished"
    /\ sentinelsReceived = NumWorkers
    /\ Len(received) >= 3

(***************************************************************************)
(* C2: a contig that has planned windows, all of them delivered in any     *)
(* order, has been flushed exactly once; no contig is ever flushed twice.  *)
(***************************************************************************)
C2_FlushedExactlyOnce ==
    \A refId \in RefIds :
        /\ flushCount[refId] <= 1
        /\ (IsBase /\ PlannedWindows(refId) # {} /\ AllDelivered(refId))
               => flushCount[refId] = 1

\* a contig flushed once whose windows arrived out of coordinate order
C2_Witness ==
    /\ IsBase
    /\ flushCount[1] = 1
    /\ \E i, j \in DOMAIN received :
          /\ i < j
          /\ received[i][1] = 1 /\ received[j][1] = 1
          /\ received[i][2] > received[j][2]

(***************************************************************************)
(* C3: nothing of a contig is handed to an output writer while a window of *)
(* that contig is undelivered, and once the last outstanding window has    *)
(* been handled by onResult the hand-off has taken place (in that step).   *)
(***************************************************************************)
C3_HandOffOnlyAndAsSoonAsComplete ==
    IsBase =>
        \A refId \in RefIds :
            /\ CallsOf(refId) # << >> => AllDelivered(refId)
            /\ (PlannedWindows(refId) # {} /\ AllDelivered(refId) /\ outputs # {})
                   => CallsOf(refId) # << >>

\* a contig's records are written although another contig's windows are outstanding
C3_Witness ==
    /\ IsBase
    /\ CallsOf(2) # << >>
    /\ ~AllDelivered(1)
    /\ ReceivedOf(1) # << >>

(***************************************************************************)
(* C4: basesProcessed of a contig is the sum of the lengths of the windows *)
(* received for it; each received result raises it by refEnd - refStart    *)
(* (a strict increase), appends its chunk and extends the variants of that *)
(* contig, and leaves the accumulators of every other contig unchanged.    *)
(***************************************************************************)
C4_BasesProcessedIsSum ==
    (IsBase /\ cpc # "start") =>
        \A refId \in RefIds :
            collector.referenceBasesProcessedById[refId] = SumLengths(ReceivedOf(refId))

C4_StepOfOnResult ==
    (IsBase /\ received' # received) =>
        LET window == received'[Len(received')]
            refId  == window[1]
            old    == collector
            new    == collector'
        IN  /\ new.referenceBasesProcessedById[refId]
                 = old.referenceBasesProcessedById[refId] + (window[3] - window[2])
            /\ new.referenceBasesProcessedById[refId] > old.referenceBasesProcessedById[refId]
            /\ refId \in DOMAIN new.consensusChunksByRefId =>
                 /\ new.consensusChunksByRefId[refId]
                      = Append(DictGet(old.consensusChunksByRefId, refId), Consensus(window))
                 /\ new.variantsByRefId[refId]
                      = DictGet(old.variantsByRefId, refId) \o VariantsInWindow(window)
            /\ \A other \in RefIds \ { refId } :
                 /\ new.referenceBasesProcessedById[other] = old.referenceBasesProcessedById[other]
                 /\ DictGet(new.consensusChunksByRefId, other)
                      = DictGet(old.consensusChunksByRefId, other)
                 /\ DictGet(new.variantsByRefId, other) = DictGet(old.variantsByRefId, other)
                 /\ (other \in DOMAIN new.consensusChunksByRefId)
                      <=> (other \in DOMAIN old.consensusChunksByRefId)

\* C4: basesProcessed is the sum of the received window lengths in every state, and
\* every onResult step adds refEnd - refStart to one contig and touches no other
C4_RecordNewResults == [] C4_BasesProcessedIsSum /\ [][C4_StepOfOnResult]_vars

\* two contigs accumulate at once, one of them holding two chunks
C4_Witness ==
    /\ IsBase
    /\ 1 \in DOMAIN collector.consensusChunksByRefId
    /\ 2 \in DOMAIN collector.consensusChunksByRefId
    /\ \E refId \in RefIds : Len(collector.consensusChunksByRefId[refId]) >= 1
    /\ collector.referenceBasesProcessedById[1] > 0
    /\ collector.referenceBasesProcessedById[2] > 0

(***************************************************************************)
(* C5: when the collector stops it has handled every result the workers    *)
(* pushed and has flushed every contig all of whose windows were pushed.   *)
(* C5_AnyHandOverOrder states it for every order in which the queue may    *)
(* hand items over; C5_ProducerOrderKept states it for a queue that hands  *)
(* over each worker's items in the order that worker pushed them, with any *)
(* interleaving across workers.                                            *)
(***************************************************************************)
AllPushedHandled ==
    /\ pushed \subseteq Range(received)
    /\ \A refId \in RefIds :
          (IsBase /\ PlannedWindows(refId) # {} /\ PlannedWindows(refId) \subseteq pushed)
              => flushCount[refId] = 1

\* C5 as stated: whatever order the queue hands items over in, a stopped collector
\* has handled every pushed result
C5_AnyHandOverOrder == cpc = "finished" => AllPushedHandled

\* C5 amended: a stopped collector has handled every pushed result when the queue
\* keeps each worker's own push order
C5_ProducerOrderKept == (cpc = "finished" /\ queueKind = "fifo") => AllPushedHandled

\* the collector stopped after results reached it in another order than planned
C5_Witness ==
    /\ cpc = "finished"
    /\ queueKind = "fifo"
    /\ IsBase
    /\ pushed # {}
    /\ \E i, j \in DOMAIN received : i < j /\ WindowLess(received[j], received[i])
    /\ \A refId \in RefIds : PlannedWindows(refId) # {} => flushCount[refId] = 1

(***************************************************************************)
(* C6: the merge does not depend on the order in which the chunks were     *)
(* appended: the sequence and confidence written for a span (for a contig, *)
(* by the Quiver collector) are those that every permutation of the        *)
(* contig's accumulated chunks yields.                                     *)
(***************************************************************************)
\* the sequences that arrange the elements of s in another order
Perms(s) ==
    { [ i \in DOMAIN s |-> s[f[i]] ] :
        f \in { g \in [ DOMAIN s -> DOMAIN s ] :
                  \A a, b \in DOMAIN s : a # b => g[a] # g[b] } }

\* the chunks of a contig in the order the collector appended them
ArrivedChunks(refId) ==
    LET ws == ReceivedOf(refId) IN [ i \in DOMAIN ws |-> Consensus(ws[i]) ]

IsSequenceRecord(call) == call.op = "writeRecord" /\ call.writer \in { "fasta", "fastq" }

\* C6: every written record is what any permutation of the appended chunks yields
C6_MergeOrderIndependent ==
    \A k \in DOMAIN collector.calls :
        LET call == collector.calls[k]
        IN  IsSequenceRecord(call) =>
              IF IsBase
              THEN \A P \in Perms(ArrivedChunks(call.span[1])) :
                      LET css == join(chunksThisSpan(P, call.span))
                      IN  /\ call.sequence = css.sequence
                          /\ call.writer = "fastq" => call.confidence = css.confidence
              ELSE \A P \in Perms(collector.consensusChunks[call.refId]) :
                      LET chunks == SortedChunks(P)
                      IN  /\ call.sequence = Flatten([ i \in DOMAIN chunks |-> chunks[i].consensus ])
                          /\ call.writer = "fastq" =>
                               call.confidence = Flatten([ i \in DOMAIN chunks |-> chunks[i].qv ])

\* a record was written from three chunks that were appended out of order
C6_Witness ==
    /\ ~IsBase
    /\ \E k \in DOMAIN collector.calls :
          /\ IsSequenceRecord(collector.calls[k])
          /\ collector.calls[k].writer = "fastq"
          /\ LET chunks == collector.consensusChunks[collector.calls[k].refId]
             IN  /\ Len(chunks) >= 3
                 /\ chunks[1].refStart > chunks[2].refStart

(***************************************************************************)
(* C7: the record written for a span is the concatenation, by ascending    *)
(* window start, of exactly the received chunks of the contig whose window *)
(* intersects the span (a chunk that only abuts it is left out); a contig  *)
(* analyzed as a whole gives one record holding its L positions.           *)
(***************************************************************************)
\* the received windows of the span's contig that share a position with the span
Intersecting(span) ==
    { w \in Range(received) : w[1] = span[1] /\ w[2] < span[3] /\ span[2] < w[3] }

\* these windows by ascending start
IntersectingAscending(span) ==
    LET S == Intersecting(span)
    IN  [ k \in 1 .. Cardinality(S) |->
            CHOOSE w \in S : Cardinality({ v \in S : v[2] < w[2] }) = k - 1 ]

Positions(s, e) == [ i \in 1 .. (e - s) |-> s + i - 1 ]

RecordsOf(refId, writer) ==
    SelectSeq(CallsOf(refId), LAMBDA c : c.op = "writeRecord" /\ c.writer = writer)

\* C7: a record holds exactly the chunks intersecting its span, by ascending start
C7_RecordIsIntersectingChunksAscending ==
    IsBase =>
      /\ \A k \in DOMAIN collector.calls :
            LET call == collector.calls[k]
            IN  IsSequenceRecord(call) =>
                  LET ws == IntersectingAscending(call.span)
                  IN  /\ call.sequence = Flatten([ i \in DOMAIN ws |-> Consensus(ws[i]).sequence ])
                      /\ call.sequence = Positions(call.span[2], call.span[3])
                      /\ call.writer = "fastq" =>
                           call.confidence
                             = Flatten([ i \in DOMAIN ws |-> Consensus(ws[i]).confidence ])
      /\ \A refId \in RefIds :
            (referenceWindows = << >> /\ flushCount[refId] = 1 /\ "fasta" \in outputs) =>
                /\ Len(RecordsOf(refId, "fasta")) = 1
                /\ Len(RecordsOf(refId, "fasta")[1].sequence) = RefLength(refId)

\* a record was written for a span that a received chunk abuts without intersecting
C7_Witness ==
    /\ IsBase
    /\ \E k \in DOMAIN collector.calls :
          LET call == collector.calls[k]
          IN  /\ IsSequenceRecord(call)
              /\ \E w \in Range(received) :
                    /\ w[1] = call.span[1]
                    /\ (w[2] = call.span[3] \/ w[3] = call.span[2])
                    /\ w \notin Intersecting(call.span)
              /\ Cardinality(Intersecting(call.span)) >= 2

(***************************************************************************)
(* C8: the record of span (s, e) is named by the plain contig name exactly *)
(* when s = 0 and e is the contig length, and by the contig name suffixed  *)
(* with s and e otherwise.                                                 *)
(***************************************************************************)
C8_SpanName ==
    IsBase =>
      \A k \in DOMAIN collector.calls :
          LET call == collector.calls[k]
          IN  IsSequenceRecord(call) =>
                LET refId == call.span[1]
                    whole == call.span[2] = 0 /\ call.span[3] = ContigLen
                IN  /\ call.name[1] = RefName(refId) <=> whole
                    /\ ~whole => call.name[1] = RefName(refId) \o << call.span[2], call.span[3] >>

\* one run wrote a plainly named record and records suffixed with their span,
\* among them a span reaching the contig end and a span starting at 0
C8_Witness ==
    /\ IsBase
    /\ \E i, j, k \in DOMAIN collector.calls :
          /\ IsSequenceRecord(collector.calls[i])
          /\ IsSequenceRecord(collector.calls[j])
          /\ IsSequenceRecord(collector.calls[k])
          /\ collector.calls[i].name[1] = RefName(2)
          /\ collector.calls[j].name[1] = RefName(1) \o << 3, ContigLen >>
          /\ collector.calls[k].name[1] = RefName(1) \o << 0, 1 >>

(***************************************************************************)
(* C9: the total a contig is compared against is the total length of the   *)
(* spans the user declared on it (the contig length when none is declared) *)
(* and equals the total length of its planned windows; the flush has fired *)
(* exactly for the contigs whose basesProcessed equals that total.         *)
(***************************************************************************)
RECURSIVE DeclaredBasesFrom(_, _)
\* the total length of the declared windows i .. of the contig
DeclaredBasesFrom(refId, i) ==
    IF i > Len(referenceWindows) THEN 0
    ELSE (IF referenceWindows[i][1] = refId
          THEN referenceWindows[i][3] - referenceWindows[i][2]
          ELSE 0) + DeclaredBasesFrom(refId, i + 1)

DeclaredBases(refId) ==
    IF Len(referenceWindows) = 0 THEN ContigLen ELSE DeclaredBasesFrom(refId, 1)

\* C9: requiredBases is the declared span total and the planned windows sum to it
C9_RequiredBases ==
    \A refId \in RefIds :
        /\ SumLengths(enumerateChunks(refId, Stride, referenceWindows)) = DeclaredBases(refId)
        /\ (IsBase /\ ReceivedOf(refId) # << >>) =>
              (flushCount[refId] = 1
                  <=> collector.referenceBasesProcessedById[refId] = DeclaredBases(refId))

\* only a sub-window was requested and the contig was flushed on its length
C9_Witness ==
    /\ IsBase
    /\ referenceWindows = << << 1, 1, ContigLen - 1 >> >>
    /\ flushCount[1] = 1
    /\ collector.referenceBasesProcessedById[1] = ContigLen - 2
    /\ collector.referenceBasesProcessedById[1] # RefLength(1)

(***************************************************************************)
(* The coverage interval analysis of quiverConsensusAndVariantsForWindow   *)
(* (quiver/quiver.py, step 1), with kSpannedIntervals and holes of         *)
(* windows.py.                                                             *)
(***************************************************************************)
WinLen      == 23      \* length of the window analyzed
ShortWinLen == 8       \* length of a window cut short by the end of its contig
MaxPiles    == 2       \* groups of identical alignments over the window

minPoaCoverage          == 3
minIntervalLength       == 10
readStumpinessDivisor   == 10      \* readStumpinessThreshold = 0.1 = 1 / 10

\* coordinates, relative to the window start, alignments start and end at
Offsets == { -2, 0, 1, 11, 12, WinLen, WinLen + 2 }

WindowChoices == { << 1, 0, WinLen >>, << 1, 5, 5 + ShortWinLen >> }

\* alignments come in piles of up to minPoaCoverage with read bases at every
\* position; a gapped alignment (the aligner inserted one large gap: no read
\* content inside the window) comes alone
PileKinds == { << depth, FALSE >> : depth \in 1 .. minPoaCoverage } \cup { << 1, TRUE >> }

\* a pile: `depth` alignments with the same (tStart, tEnd), overlapping the window
PileChoices(window) ==
    { << window[2] + a, window[2] + b, kind[1], kind[2] >> :
        a \in Offsets, b \in Offsets, kind \in PileKinds }

IsPile(window, pile) ==
    /\ 0 <= pile[1] /\ pile[1] < pile[2]
    /\ pile[1] < window[3] /\ pile[2] > window[2]

\* (start, end) pairs compare as Python tuples
PairKeys(pairs) == [ i \in DOMAIN pairs |-> << pairs[i][1], pairs[i][2], 0 >> ]

\* the alignments of a sequence of piles, by tStart
ReadsOfPiles(piles) ==
    LET rows == Flatten([ i \in DOMAIN piles |->
                   [ d \in 1 .. piles[i][3] |->
                       << piles[i][1], piles[i][2], piles[i][4] >> ] ])
    IN  Sorted(rows, [ i \in DOMAIN rows |->
                         << rows[i][1], rows[i][2], IF rows[i][3] THEN 1 ELSE 0 >> ])

Clip(x, lo, hi) == IF x < lo THEN lo ELSE IF x > hi THEN hi ELSE x

\* the alignments truncated to the bounds of the window
ClippedReads(window, starts, ends) ==
    [ i \in DOMAIN starts |->
        << Clip(starts[i], window[2], window[3]), Clip(ends[i], window[2], window[3]) >> ]

\* at least k of the (clipped) alignments cover position p
KCovered(rs, k, p) ==
    Cardinality({ i \in DOMAIN rs : rs[i][1] <= p /\ p < rs[i][2] }) >= k

\* the k-th largest end among the alignments that start at or before x
KthLargestEnd(rs, k, x) ==
    LET ends == { rs[i][2] : i \in DOMAIN rs }
        ok   == { y \in ends :
                    Cardinality({ i \in DOMAIN rs : rs[i][1] <= x /\ rs[i][2] >= y }) >= k }
    IN  CHOOSE y \in ok : \A z \in ok : z <= y

RECURSIVE kSpannedFrom(_, _, _, _)
\* the maximal k-spanned intervals found from position y on, left to right
kSpannedFrom(rs, k, y, winEnd) ==
    LET eligible == { p \in y .. (winEnd - 1) : KCovered(rs, k, p) }
    IN  IF eligible = {} THEN << >>
        ELSE LET x  == CHOOSE p \in eligible : \A q \in eligible : p <= q
                 y2 == KthLargestEnd(rs, k, x)
             IN  << << x, y2 >> >> \o kSpannedFrom(rs, k, y2, winEnd)

\* windows.kSpannedIntervals: the maximal disjoint intervals of the window each
\* spanned by at least k alignments, found left to right, in ascending order
kSpannedIntervals(window, k, starts, ends) ==
    kSpannedFrom(ClippedReads(window, starts, ends), k, window[2], window[3])

RECURSIVE HolesFrom(_, _, _)
HolesFrom(lastE, ivs, winEnd) ==
    IF ivs = << >>
    THEN IF lastE < winEnd THEN << << lastE, winEnd >> >> ELSE << >>
    ELSE (IF Head(ivs)[1] > lastE THEN << << lastE, Head(ivs)[1] >> >> ELSE << >>)
         \o HolesFrom(Head(ivs)[2], Tail(ivs), winEnd)

\* windows.holes: the intervals of the window not covered by the given ones
holes(window, ivs) == HolesFrom(window[2], Sorted(ivs, PairKeys(ivs)), window[3])

\* mutant: an interval is kept from length minIntervalLength on
KeptIntervals_FromMinLength(window, starts, ends) ==
    SelectSeq(kSpannedIntervals(window, minPoaCoverage, starts, ends),
              LAMBDA iv : (iv[2] - iv[1]) >= minIntervalLength)

\* intervals = [...] (lines 145-150)
KeptIntervals(window, starts, ends) ==
    SelectSeq(kSpannedIntervals(window, minPoaCoverage, starts, ends),
              LAMBDA iv : (iv[2] - iv[1]) > minIntervalLength)

\* mutant: the gaps are appended and the list is left as it is
AllIntervals_Unsorted(window, kept) == kept \o holes(window, kept)

\* coverageGaps = holes(...); allIntervals = sorted(intervals + coverageGaps)
\* (lines 152-153)
AllIntervals(window, kept) ==
    LET both == kept \o holes(window, kept) IN Sorted(both, PairKeys(both))

Starts(rs) == [ i \in DOMAIN rs |-> rs[i][1] ]
Ends(rs)   == [ i \in DOMAIN rs |-> rs[i][2] ]

\* step 1 of quiverConsensusAndVariantsForWindow
IdentifyIntervals ==
    /\ apc = "called"
    /\ intervals' = KeptIntervals(refWindow, Starts(reads), Ends(reads))
    /\ allIntervals' = AllIntervals(refWindow, intervals')
    /\ apc' = "intervals"
    /\ UNCHANGED << refWindow, reads, subConsensi, windowCss >>
    /\ UNCHANGED << poolVars, vcfVars >>

\* readsInWindow(cmpH5, subWin, ...): the rows that overlap the interval
\* (the depth limit is beyond the number of rows of the model)
readsInWindow(rows, interval) ==
    SelectSeq(rows, LAMBDA r : r[1] < interval[2] /\ r[2] > interval[1])

\* aln.clippedTo(intStart, intEnd): a clipped alignment is
\* [referenceStart, referenceEnd, readLength]; a gapped alignment has no read
\* base inside the window, any other has one per reference position
clippedTo(r, interval) ==
    LET s == Clip(r[1], interval[1], interval[2])
        e == Clip(r[2], interval[1], interval[2])
    IN  [ referenceStart |-> s, referenceEnd |-> e,
          readLength |-> IF r[3] THEN 0 ELSE e - s ]

referenceSpan(aln) == aln.referenceEnd - aln.referenceStart

\* mutant: no alignment is filtered out
filterAlnsForQuiver_KeepAll(alns) == alns

\* filterAlnsForQuiver: readLength >= readStumpinessThreshold * referenceSpan,
\* the threshold being 1 / readStumpinessDivisor
filterAlnsForQuiver(alns) ==
    SelectSeq(alns, LAMBDA aln : aln.readLength * readStumpinessDivisor >= referenceSpan(aln))

spansReferenceRange(aln, interval) ==
    aln.referenceStart <= interval[1] /\ aln.referenceEnd >= interval[2]

\* the alignments the consensus of an interval is called on (lines 169-177)
clippedAlns(rows, interval) ==
    LET alns == readsInWindow(rows, interval)
    IN  filterAlnsForQuiver([ i \in DOMAIN alns |-> clippedTo(alns[i], interval) ])

\* len([aln for aln in clippedAlns if aln.spansReferenceRange(*interval)])
numSpanning(rows, interval) ==
    Len(SelectSeq(clippedAlns(rows, interval), LAMBDA aln : spansReferenceRange(aln, interval)))

subWindow(window, interval) == << window[1], interval[1], interval[2] >>

\* quiverConsensusForAlignments: a base for every position of the interval,
\* with a confidence that grows with the alignments used
quiverConsensusForAlignments(subWin, alns) ==
    [ by         |-> "quiver",
      refWindow  |-> subWin,
      sequence   |-> [ i \in 1 .. (subWin[3] - subWin[2]) |-> subWin[2] + i - 1 ],
      confidence |-> [ i \in 1 .. (subWin[3] - subWin[2]) |-> Len(alns) ] ]

\* the no-call base of the "nocall" no-evidence consensus
NoCallBase == -1

\* noEvidenceConsensusFactory(intRefSeq), for noEvidenceConsensus = "nocall"
noEvidenceConsensusFactory(subWin) == [ i \in 1 .. (subWin[3] - subWin[2]) |-> NoCallBase ]

\* Consensus(subWin, cssSeq, [0]*len(cssSeq)) (lines 188-191)
noEvidenceConsensus(subWin) ==
    LET cssSeq == noEvidenceConsensusFactory(subWin)
    IN  [ by         |-> "noEvidence",
          refWindow  |-> subWin,
          sequence   |-> cssSeq,
          confidence |-> [ i \in DOMAIN cssSeq |-> 0 ] ]

\* mutant: the alignments need only overlap the interval
EnoughCoverage_Overlapping(rows, interval) ==
    Len(clippedAlns(rows, interval)) >= minPoaCoverage

\* the test of lines 179-180
EnoughCoverage(rows, interval) == numSpanning(rows, interval) >= minPoaCoverage

\* one pass of the loop of lines 163-193
consensusForInterval(window, rows, interval) ==
    LET subWin == subWindow(window, interval)
    IN  IF EnoughCoverage(rows, interval)
        THEN quiverConsensusForAlignments(subWin, clippedAlns(rows, interval))
        ELSE noEvidenceConsensus(subWin)

\* steps 2 and 3: the next interval of allIntervals
ConsensusForInterval ==
    /\ apc = "intervals"
    /\ Len(subConsensi) < Len(allIntervals)
    /\ subConsensi' = Append(subConsensi,
           consensusForInterval(refWindow, reads, allIntervals[Len(subConsensi) + 1]))
    /\ UNCHANGED << refWindow, reads, apc, intervals, allIntervals, windowCss >>
    /\ UNCHANGED << poolVars, vcfVars >>

\* step 4: Consensus(refWindow, cssSeq_, cssConf_) (lines 197-201)
GlueConsensus(window, subs) ==
    [ refWindow  |-> window,
      sequence   |-> Flatten([ i \in DOMAIN subs |-> subs[i].sequence ]),
      confidence |-> Flatten([ i \in DOMAIN subs |-> subs[i].confidence ]) ]

\* steps 4 to 6, once every interval has its consensus
ReturnConsensus ==
    /\ apc = "intervals"
    /\ Len(subConsensi) = Len(allIntervals)
    /\ windowCss' = GlueConsensus(refWindow, subConsensi)
    /\ apc' = "returned"
    /\ UNCHANGED << refWindow, reads, intervals, allIntervals, subConsensi >>
    /\ UNCHANGED << poolVars, vcfVars >>

\* the call: a window and the alignments readsInWindow finds in it
InitWindow ==
    /\ refWindow \in WindowChoices
    /\ \E n \in 0 .. MaxPiles :
         \E piles \in [ 1 .. n -> PileChoices(refWindow) ] :
            /\ \A i \in 1 .. n : IsPile(refWindow, piles[i])
            /\ reads = ReadsOfPiles(piles)
    /\ apc = "called"
    /\ intervals = << >>
    /\ allIntervals = << >>
    /\ subConsensi = << >>
    /\ windowCss = None
    /\ vcf = None
    /\ vcfVariants = << >>
    /\ vpc = "idle"
    /\ referenceWindows = << >>
    /\ outputs = {}
    /\ queueKind = "fifo"
    /\ queueSize = 0
    /\ collectorClass = "QuiverResultCollector"
    /\ workQueue = << >>
    /\ wpc = [ w \in Workers |-> "busy" ]
    /\ wtask = [ w \in Workers |-> refWindow ]
    /\ resultsQueue = [ w \in Workers |-> << >> ]
    /\ cpc = "loop"
    /\ sentinelsReceived = 0
    /\ collector = NewCollector
    /\ pushed = {}
    /\ received = << >>
    /\ flushCount = [ refId \in RefIds |-> 0 ]
    /\ hist = NewHistory(workQueue)

NextWindow ==
    \/ IdentifyIntervals
    \/ ConsensusForInterval
    \/ ReturnConsensus

SpecWindow == InitWindow /\ [][NextWindow]_vars

(***************************************************************************)
(* C10: allIntervals partitions the window exactly: starts strictly        *)
(* increasing, each end equal to the next start, first start the window    *)
(* start, last end the window end.                                         *)
(***************************************************************************)
C10_AllIntervalsPartitionWindow ==
    apc = "intervals" =>
        /\ Len(allIntervals) >= 1
        /\ allIntervals[1][1] = refWindow[2]
        /\ allIntervals[Len(allIntervals)][2] = refWindow[3]
        /\ \A i \in DOMAIN allIntervals : allIntervals[i][1] < allIntervals[i][2]
        /\ \A i \in 1 .. (Len(allIntervals) - 1) :
              /\ allIntervals[i][1] < allIntervals[i + 1][1]
              /\ allIntervals[i][2] = allIntervals[i + 1][1]

\* two kept intervals and a gap, from alignments reaching beyond the window
C10_Witness ==
    /\ apc = "intervals"
    /\ Len(intervals) = 2
    /\ Len(allIntervals) = 3
    /\ \E i \in DOMAIN allIntervals : allIntervals[i] \notin Range(intervals)
    /\ \E i \in DOMAIN reads : reads[i][1] < refWindow[2] \/ reads[i][2] > refWindow[3]

(***************************************************************************)
(* C11: which k-spanned intervals survive the length filter.               *)
(***************************************************************************)
\* the k-spanned intervals of the window under analysis, before the filter
SpannedIntervals == kSpannedIntervals(refWindow, minPoaCoverage, Starts(reads), Ends(reads))

IntervalLength(iv) == iv[2] - iv[1]

\* the interval lies inside one of the gaps of allIntervals
InsideGap(iv) ==
    \E i \in DOMAIN allIntervals :
        /\ allIntervals[i] \notin Range(intervals)
        /\ allIntervals[i][1] <= iv[1] /\ iv[2] <= allIntervals[i][2]

\* C11 as stated: a k-spanned interval is discarded exactly when it is shorter
\* than 10, so one of length 10 or more is kept.
C11_KeptFromLengthTen ==
    apc = "intervals" =>
        \A i \in DOMAIN SpannedIntervals :
            (SpannedIntervals[i] \in Range(intervals))
                <=> (IntervalLength(SpannedIntervals[i]) >= minIntervalLength)

\* C11 (amended): a k-spanned interval is kept exactly when it is longer than
\* 10; one of length 10 or less is discarded and its positions fall in a gap.
C11_KeptWhenLongerThanTen ==
    apc = "intervals" =>
        /\ intervals = SelectSeq(SpannedIntervals,
                                 LAMBDA iv : IntervalLength(iv) >= minIntervalLength + 1)
        /\ \A i \in DOMAIN SpannedIntervals :
              IntervalLength(SpannedIntervals[i]) <= minIntervalLength
                  => /\ SpannedIntervals[i] \notin Range(intervals)
                     /\ InsideGap(SpannedIntervals[i])

\* an interval of length exactly 10 is discarded next to one of length 11 kept
C11_Witness ==
    /\ apc = "intervals"
    /\ \E i \in DOMAIN SpannedIntervals :
          /\ IntervalLength(SpannedIntervals[i]) = minIntervalLength
          /\ SpannedIntervals[i] \notin Range(intervals)
    /\ \E i \in DOMAIN intervals : IntervalLength(intervals[i]) = minIntervalLength + 1

(***************************************************************************)
(* C12: no k-spanned interval survives the filter.                         *)
(***************************************************************************)
WholeWindow == << refWindow[2], refWindow[3] >>

WindowLength == refWindow[3] - refWindow[2]

IsPlaceholder(sub) ==
    /\ sub.by = "noEvidence"
    /\ \A i \in DOMAIN sub.sequence : sub.sequence[i] = NoCallBase
    /\ \A i \in DOMAIN sub.confidence : sub.confidence[i] = 0

\* the alignments that would be used on the whole window: clipped to it, not
\* stumpy, and spanning it
UsableSpanning ==
    { i \in DOMAIN reads :
        /\ reads[i][1] <= refWindow[2] /\ reads[i][2] >= refWindow[3]
        /\ ~ reads[i][3] }

\* C12 as stated: when no adequate interval survives, allIntervals is one gap
\* equal to the whole window and the window's consensus is a single
\* no-evidence placeholder.
C12_SinglePlaceholder ==
    (apc = "returned" /\ intervals = << >>) =>
        /\ allIntervals = << WholeWindow >>
        /\ Len(subConsensi) = 1
        /\ IsPlaceholder(subConsensi[1])

\* C12 (amended): when no adequate interval survives, allIntervals is one gap
\* equal to the whole window and the window's consensus is made of that one
\* interval; it is a no-evidence placeholder of the window's length unless
\* minPoaCoverage usable alignments span the whole window, which needs a
\* window no longer than 10.
C12_SingleGapInterval ==
    (apc \in { "intervals", "returned" } /\ intervals = << >>) =>
        /\ allIntervals = << WholeWindow >>
        /\ apc = "returned" =>
              /\ Len(subConsensi) = 1
              /\ subConsensi[1].refWindow = refWindow
              /\ windowCss.sequence = subConsensi[1].sequence
              /\ windowCss.confidence = subConsensi[1].confidence
              /\ Len(windowCss.sequence) = WindowLength
              /\ IsPlaceholder(subConsensi[1])
                    <=> Cardinality(UsableSpanning) < minPoaCoverage
              /\ WindowLength > minIntervalLength => IsPlaceholder(subConsensi[1])

\* a long window with alignments in it, none of its intervals adequate,
\* returned as one placeholder
C12_Witness ==
    /\ apc = "returned"
    /\ intervals = << >>
    /\ WindowLength > minIntervalLength
    /\ Len(reads) >= minPoaCoverage
    /\ SpannedIntervals # << >>
    /\ IsPlaceholder(subConsensi[1])

(***************************************************************************)
(* C13: the variants a window reports.                                     *)
(***************************************************************************)
ResultItems == UNION { Range(resultsQueue[w]) : w \in Workers } \ { None }

NoDuplicates(seq) == \A i \in DOMAIN seq : \A j \in DOMAIN seq : i # j => seq[i] # seq[j]

\* the variants handed to a variants writer so far
WrittenVariants(writer) ==
    Flatten([ i \in DOMAIN collector.calls |->
                LET call == collector.calls[i]
                IN  IF call.writer # writer THEN << >>
                    ELSE IF "variants" \in DOMAIN call THEN call.variants
                    ELSE IF "variant" \in DOMAIN call THEN << call.variant >>
                    ELSE << >> ])

\* C13: a result carries exactly the variants of the enlarged window whose
\* refStart is within [refStart, refEnd) of its window, none from the
\* margins; over the windows of a contig no variant is reported twice.
C13_VariantsClippedToWindow ==
    /\ \A item \in ResultItems :
          LET window == WindowOf(item)
              called == VariantsInWindow(enlargedReferenceWindow(window, referenceChunkOverlap))
          IN  /\ \A i \in DOMAIN item.variants :
                    /\ window[2] <= item.variants[i].refStart
                    /\ item.variants[i].refStart < window[3]
              /\ \A i \in DOMAIN called :
                    (window[2] <= called[i].refStart /\ called[i].refStart < window[3])
                        => called[i] \in Range(item.variants)
              /\ NoDuplicates(item.variants)
    /\ NoDuplicates(collector.allVariants)
    /\ \A refId \in DOMAIN collector.variantsByRefId :
          NoDuplicates(collector.variantsByRefId[refId])
    /\ \A writer \in { "gff", "vcf" } : NoDuplicates(WrittenVariants(writer))

\* two adjacent windows of a contig have both reported; each one's enlarged
\* window held a variant of the other, and each variant was collected once
C13_Witness ==
    /\ collectorClass = "QuiverResultCollector"
    /\ \E i \in DOMAIN received : \E j \in DOMAIN received :
          /\ received[i][1] = received[j][1]
          /\ received[i][3] = received[j][2]
          /\ \E v \in Range(collector.allVariants) :
                /\ v.refId = received[i][1]
                /\ received[j][2] <= v.refStart /\ v.refStart < received[j][3]
                /\ enlargedReferenceWindow(received[i], referenceChunkOverlap)[3] > v.refStart
          /\ \E v \in Range(collector.allVariants) :
                /\ v.refId = received[i][1]
                /\ received[i][2] <= v.refStart /\ v.refStart < received[i][3]

(***************************************************************************)
(* VariantsVcfWriter (io/VariantsVcfWriter.py): the fields of one VCF line *)
(* per variant.  Text is TLA+ strings; an optional value (Python None or a *)
(* value) is the empty sequence or a one-element sequence.                 *)
(***************************************************************************)
NoValue == << >>
Some(x) == << x >>
IsNoValue(o) == o = << >>
Value(o) == o[1]

RECURSIVE JoinText(_, _)
\* sep.join(texts)
JoinText(texts, sep) ==
    IF texts = << >> THEN ""
    ELSE IF Len(texts) = 1 THEN texts[1]
    ELSE texts[1] \o sep \o JoinText(Tail(texts), sep)

\* '{:.3g}'.format(f / denom) for 0 <= f <= denom, f = 0 or f / denom >= 0.1:
\* three significant digits, trailing zeros dropped
Format3g(f, denom) ==
    LET m  == (2000 * f + denom) \div (2 * denom)
        d1 == m \div 100
        d2 == (m \div 10) % 10
        d3 == m % 10
    IN  IF f = 0 THEN "0"
        ELSE IF m = 1000 THEN "1"
        ELSE "0." \o ToString(d1)
                  \o (IF d2 = 0 /\ d3 = 0 THEN ""
                      ELSE ToString(d2) \o (IF d3 = 0 THEN "" ELSE ToString(d3)))

\* getattr(var, 'frequency{}'.format(label))
FrequencyOf(var, label) == IF label = 1 THEN var.frequency1 ELSE var.frequency2

\* line 12 raises TypeError when frequency2 is None, line 15 ZeroDivisionError
\* when the two frequencies add up to 0
FrequencyRaises(var) ==
    /\ ~ IsNoValue(var.frequency1)
    /\ var.isHeterozygous
    /\ \/ IsNoValue(var.frequency2)
       \/ Value(var.frequency1) + Value(var.frequency2) = 0

\* mutant: a frequency is reported whenever frequency1 is known
vcfVariantFrequency_AnyZygosity(var, labels) ==
    IF IsNoValue(var.frequency1) THEN NoValue
    ELSE LET denom == Value(var.frequency1)
                        + (IF IsNoValue(var.frequency2) THEN 0 ELSE Value(var.frequency2))
         IN  Some("AF=" \o Format3g(Value(var.frequency1), denom))

\* vcfVariantFrequency, where it does not raise
vcfVariantFrequency(var, labels) ==
    IF IsNoValue(var.frequency1) THEN NoValue
    ELSE IF var.isHeterozygous
    THEN LET denom == Value(var.frequency1) + Value(var.frequency2)
             known == SelectSeq(labels, LAMBDA label : ~ IsNoValue(FrequencyOf(var, label)))
             freqs == [ i \in DOMAIN known |-> Value(FrequencyOf(var, known[i])) ]
         IN  Some("AF=" \o JoinText([ i \in DOMAIN freqs |-> Format3g(freqs[i], denom) ], ","))
    ELSE NoValue

\* VariantsVcfWriter.__init__: thresholds, filter ids and the header lines that
\* depend on them (file date, version and contig lines are left out)
VariantsVcfWriter(optionsDict) ==
    LET qID == "q" \o ToString(optionsDict.minConfidence)
        cID == "c" \o ToString(optionsDict.minCoverage)
    IN  [ _minConfidence         |-> optionsDict.minConfidence,
          _minCoverage           |-> optionsDict.minCoverage,
          _minConfidenceFilterID |-> qID,
          _minCoverageFilterID   |-> cID,
          header |-> (IF optionsDict.minConfidence > 0
                      THEN << "##FILTER=<ID=" \o qID \o ",Description=\"Quality below "
                                 \o ToString(optionsDict.minConfidence) \o "\">" >>
                      ELSE << >>)
                     \o (IF optionsDict.minCoverage > 0
                         THEN << "##FILTER=<ID=" \o cID \o ",Description=\"Coverage below "
                                    \o ToString(optionsDict.minCoverage) \o "\">" >>
                         ELSE << >>)
                     \o << "#CHROM\tPOS\tID\tREF\tALT\tQUAL\tFILTER\tINFO" >>,
          _vcfFile |-> << >>,
          raised   |-> FALSE ]

\* mutant: only an empty reference allele makes an insertion or deletion
IsIndel_EmptyRefOnly(var) == var.refSeq = ""

\* the test of lines 72-73
IsIndel(var) ==
    \/ var.refSeq = ""
    \/ var.readSeq1 = ""
    \/ (var.isHeterozygous /\ Value(var.readSeq2) = "")

\* mutant: the called alleles are written without the previous base
IndelAlt_Unanchored(var) ==
    IF var.isHeterozygous
    THEN JoinText(<< var.readSeq1, Value(var.readSeq2) >>, ",")
    ELSE var.readSeq1

\* alt of an insertion or deletion (lines 77-80)
IndelAlt(var) ==
    IF var.isHeterozygous
    THEN JoinText(<< var.readPrev \o var.readSeq1, var.readPrev \o Value(var.readSeq2) >>, ",")
    ELSE var.readPrev \o var.readSeq1

\* mutant: the frequencies of both called alleles are always asked for
SubstitutionAlt_BothLabels(var) ==
    IF var.isHeterozygous
    THEN IF var.refSeq = var.readSeq1
         THEN [ alt |-> Value(var.readSeq2), labels |-> << 1, 2 >> ]
         ELSE IF var.refSeq = Value(var.readSeq2)
         THEN [ alt |-> var.readSeq1, labels |-> << 1, 2 >> ]
         ELSE [ alt |-> JoinText(<< var.readSeq1, Value(var.readSeq2) >>, ","),
                labels |-> << 1, 2 >> ]
    ELSE [ alt |-> var.readSeq1, labels |-> << 1, 2 >> ]

\* alt and labels of a substitution (lines 86-100)
SubstitutionAlt(var) ==
    IF var.isHeterozygous
    THEN IF var.refSeq = var.readSeq1
         THEN [ alt |-> Value(var.readSeq2), labels |-> << 2 >> ]
         ELSE IF var.refSeq = Value(var.readSeq2)
         THEN [ alt |-> var.readSeq1, labels |-> << 1 >> ]
         ELSE [ alt |-> JoinText(<< var.readSeq1, Value(var.readSeq2) >>, ","),
                labels |-> << 1, 2 >> ]
    ELSE [ alt |-> var.readSeq1, labels |-> << 1, 2 >> ]

\* mutant: a value equal to its threshold fails the filter
FailedFilters_AtThreshold(self, var) ==
    (IF var.confidence <= self._minConfidence THEN << self._minConfidenceFilterID >> ELSE << >>)
    \o (IF var.coverage <= self._minCoverage THEN << self._minCoverageFilterID >> ELSE << >>)

\* failedFilters (lines 107-111)
FailedFilters(self, var) ==
    (IF var.confidence < self._minConfidence THEN << self._minConfidenceFilterID >> ELSE << >>)
    \o (IF var.coverage < self._minCoverage THEN << self._minCoverageFilterID >> ELSE << >>)

\* the fields of the line printed for one variant (lines 67-122)
VcfLine(self, var) ==
    LET indel  == IsIndel(var)
        pos    == IF indel THEN var.refStart ELSE var.refStart + 1
        ref    == IF indel THEN var.refPrev \o var.refSeq ELSE var.refSeq
        alt    == IF indel THEN IndelAlt(var) ELSE SubstitutionAlt(var).alt
        labels == IF indel THEN << 1, 2 >> ELSE SubstitutionAlt(var).labels
        freq   == vcfVariantFrequency(var, labels)
        dp     == "DP=" \o ToString(var.coverage)
        info   == IF ~ IsNoValue(freq) /\ Value(freq) # "" THEN dp \o ";" \o Value(freq) ELSE dp
        failedFilters == FailedFilters(self, var)
        filterText == IF failedFilters # << >> THEN JoinText(failedFilters, ";") ELSE "PASS"
    IN  [ chrom  |-> RefName(var.refId),
          pos    |-> ToString(pos),
          id     |-> ".",
          ref    |-> ref,
          alt    |-> alt,
          qual   |-> ToString(var.confidence),
          filter |-> filterText,
          info   |-> info ]

RECURSIVE writeVariantsFrom(_, _, _)
\* the loop of writeVariants from the i-th variant on; an exception ends it
writeVariantsFrom(self, variants, i) ==
    IF i > Len(variants) THEN self
    ELSE IF FrequencyRaises(variants[i]) THEN [ self EXCEPT !.raised = TRUE ]
    ELSE writeVariantsFrom([ self EXCEPT !._vcfFile = Append(@, VcfLine(self, variants[i])) ],
                           variants, i + 1)

\* VariantsVcfWriter.writeVariants
writeVariants(self, variants) == writeVariantsFrom(self, variants, 1)

Alleles == { "", "A", "G", "AC" }

\* a Variant: homozygous (no readSeq2) or heterozygous (two different called
\* alleles); the called allele of a homozygous variant differs from the
\* reference allele
AlleleChoices ==
    { [ refSeq |-> r, readSeq1 |-> a, readSeq2 |-> NoValue, isHeterozygous |-> FALSE ] :
        r \in { "", "A" }, a \in Alleles }
    \cup
    { [ refSeq |-> t[1], readSeq1 |-> t[2], readSeq2 |-> Some(t[3]), isHeterozygous |-> TRUE ] :
        t \in { "", "A" } \X Alleles \X Alleles }

IsVariant(al) ==
    IF al.isHeterozygous THEN al.readSeq1 # Value(al.readSeq2) ELSE al.refSeq # al.readSeq1

\* frequency1 and frequency2: read counts, or unknown
FrequencyChoices(isHeterozygous) ==
    IF isHeterozygous
    THEN { << NoValue, NoValue >>, << Some(1), Some(2) >>, << Some(2), Some(2) >>,
           << Some(3), Some(1) >>, << Some(3), NoValue >>, << NoValue, Some(2) >> }
    ELSE { << NoValue, NoValue >>, << Some(3), NoValue >> }

\* confidence and coverage, below, at and above the thresholds
ScoreChoices == { 20, 30, 50 } \X { 3, 5, 12 }

VariantChoices ==
    { [ refId |-> 1, refStart |-> start, refPrev |-> "T", readPrev |-> "T",
        refSeq |-> al.refSeq, readSeq1 |-> al.readSeq1, readSeq2 |-> al.readSeq2,
        isHeterozygous |-> al.isHeterozygous,
        frequency1 |-> fr[1], frequency2 |-> fr[2],
        confidence |-> sc[1], coverage |-> sc[2] ] :
        start \in { 9 }, al \in { a \in AlleleChoices : IsVariant(a) },
        fr \in FrequencyChoices(TRUE) \cup FrequencyChoices(FALSE), sc \in ScoreChoices }

IsVariantChoice(var) ==
    << var.frequency1, var.frequency2 >> \in FrequencyChoices(var.isHeterozygous)

OptionsChoices == { [ minConfidence |-> 30, minCoverage |-> 5 ],
                    [ minConfidence |-> 0, minCoverage |-> 0 ] }

\* self._vcfWriter = VariantsVcfWriter(...)
OpenVcf ==
    /\ vpc = "idle"
    /\ \E optionsDict \in OptionsChoices : vcf' = VariantsVcfWriter(optionsDict)
    /\ vpc' = "open"
    /\ UNCHANGED vcfVariants
    /\ UNCHANGED << poolVars, windowVars >>

\* self._vcfWriter.writeVariants(variants)
WriteVariants ==
    /\ vpc = "open"
    /\ vcf' = writeVariants(vcf, vcfVariants)
    /\ vpc' = "written"
    /\ UNCHANGED vcfVariants
    /\ UNCHANGED << poolVars, windowVars >>

\* a homozygous substitution A -> G, a heterozygous insertion of A and AC after
\* T, and a heterozygous substitution whose second frequency is unknown
ExampleVariants ==
    LET v == [ refId |-> 1, refStart |-> 9, refPrev |-> "T", readPrev |-> "T",
               refSeq |-> "A", readSeq1 |-> "G", readSeq2 |-> NoValue,
               isHeterozygous |-> FALSE, frequency1 |-> NoValue, frequency2 |-> NoValue,
               confidence |-> 50, coverage |-> 12 ]
    IN  { v,
          [ v EXCEPT !.refSeq = "", !.readSeq1 = "A", !.readSeq2 = Some("AC"),
                     !.isHeterozygous = TRUE, !.frequency1 = Some(1), !.frequency2 = Some(2) ],
          [ v EXCEPT !.readSeq2 = Some("AC"), !.isHeterozygous = TRUE,
                     !.frequency1 = Some(3) ] }

\* the variants handed to the writer: none, any one, or two of the examples
InitVcf ==
    /\ \/ vcfVariants = << >>
       \/ \E var \in VariantChoices : IsVariantChoice(var) /\ vcfVariants = << var >>
       \/ \E v1 \in ExampleVariants : \E v2 \in ExampleVariants : vcfVariants = << v1, v2 >>
    /\ vcf = None
    /\ vpc = "idle"
    /\ refWindow = NoWindow
    /\ reads = << >>
    /\ apc = "idle"
    /\ intervals = << >>
    /\ allIntervals = << >>
    /\ subConsensi = << >>
    /\ windowCss = None
    /\ referenceWindows = << >>
    /\ outputs = { "vcf" }
    /\ queueKind = "fifo"
    /\ queueSize = 0
    /\ collectorClass = "ResultCollector"
    /\ workQueue = << >>
    /\ wpc = [ w \in Workers |-> "idle" ]
    /\ wtask = [ w \in Workers |-> NoWindow ]
    /\ resultsQueue = [ w \in Workers |-> << >> ]
    /\ cpc = "loop"
    /\ sentinelsReceived = 0
    /\ collector = NewCollector
    /\ pushed = {}
    /\ received = << >>
    /\ flushCount = [ refId \in RefIds |-> 0 ]
    /\ hist = NewHistory(workQueue)

NextVcf ==
    \/ OpenVcf
    \/ WriteVariants

SpecVcf == InitVcf /\ [][NextVcf]_vars

(***************************************************************************)
(* C14 to C17: the fields of the VCF lines.                                *)
(***************************************************************************)
\* the lines written and the variants they were written for
WrittenLines == IF vpc = "written" THEN DOMAIN vcf._vcfFile ELSE {}

IsSubstitution(var) ==
    /\ var.refSeq # ""
    /\ var.readSeq1 # ""
    /\ var.isHeterozygous => Value(var.readSeq2) # ""

\* C14: POS is refStart + 1 for a substitution and refStart for an insertion
\* or deletion.
C14_PosOfLine ==
    \A i \in WrittenLines :
        LET var == vcfVariants[i]
            line == vcf._vcfFile[i]
        IN  /\ IsSubstitution(var) => line.pos = ToString(var.refStart + 1)
            /\ ~ IsSubstitution(var) => line.pos = ToString(var.refStart)
            /\ (IsSubstitution(var) /\ var.refStart = 9) => line.pos = "10"

\* a substitution at 0-based 9 written at POS 10 next to an insertion at POS 9
C14_Witness ==
    /\ vpc = "written"
    /\ Len(vcf._vcfFile) = 2
    /\ vcfVariants[1].refSeq = "A" /\ vcfVariants[1].readSeq1 = "G"
    /\ vcf._vcfFile[1].pos = "10" /\ vcf._vcfFile[1].ref = "A" /\ vcf._vcfFile[1].alt = "G"
    /\ vcfVariants[2].refSeq = ""
    /\ vcf._vcfFile[2].pos = "9"

\* C15: an insertion or deletion has REF = refPrev + refSeq and ALT = readPrev
\* + readSeq1, or readPrev + readSeq1 "," readPrev + readSeq2 when heterozygous.
C15_IndelRefAlt ==
    \A i \in WrittenLines :
        LET var == vcfVariants[i]
            line == vcf._vcfFile[i]
        IN  ~ IsSubstitution(var) =>
              /\ line.ref = var.refPrev \o var.refSeq
              /\ ~ var.isHeterozygous => line.alt = var.readPrev \o var.readSeq1
              /\ var.isHeterozygous =>
                    line.alt = var.readPrev \o var.readSeq1 \o "," \o
                               var.readPrev \o Value(var.readSeq2)
              /\ (var.isHeterozygous /\ var.refSeq = "" /\ var.refPrev = "T"
                    /\ var.readPrev = "T" /\ var.readSeq1 = "A" /\ Value(var.readSeq2) = "AC")
                   => (line.ref = "T" /\ line.alt = "TA,TAC")

\* the heterozygous insertion of A and AC after T
C15_Witness ==
    /\ vpc = "written"
    /\ \E i \in DOMAIN vcf._vcfFile :
          /\ vcfVariants[i].isHeterozygous
          /\ vcfVariants[i].refSeq = ""
          /\ vcf._vcfFile[i].ref = "T"
          /\ vcf._vcfFile[i].alt = "TA,TAC"

\* C16: FILTER is PASS exactly when confidence >= minConfidence and coverage
\* >= minCoverage; otherwise the failed ids joined by ";", q before c.
C16_FilterOfLine ==
    \A i \in WrittenLines :
        LET var == vcfVariants[i]
            line == vcf._vcfFile[i]
            q == "q" \o ToString(vcf._minConfidence)
            c == "c" \o ToString(vcf._minCoverage)
            lowConfidence == var.confidence < vcf._minConfidence
            lowCoverage == var.coverage < vcf._minCoverage
        IN  /\ line.filter = "PASS"
                 <=> (var.confidence >= vcf._minConfidence /\ var.coverage >= vcf._minCoverage)
            /\ (lowConfidence /\ lowCoverage) => line.filter = q \o ";" \o c
            /\ (lowConfidence /\ ~ lowCoverage) => line.filter = q
            /\ (~ lowConfidence /\ lowCoverage) => line.filter = c

\* a line failing both thresholds
C16_Witness ==
    /\ vpc = "written"
    /\ vcf._minConfidence = 30 /\ vcf._minCoverage = 5
    /\ \E i \in DOMAIN vcf._vcfFile :
          /\ vcfVariants[i].confidence < 30 /\ vcfVariants[i].coverage < 5
          /\ vcf._vcfFile[i].filter = "q30;c5"

\* the texts '{:.3g}' gives the frequencies of the model
FrequencyTexts == { Format3g(f, denom) : f \in 0 .. 3, denom \in 1 .. 6 }

\* the AF entries of one or two frequencies
AFEntries ==
    { "AF=" \o a : a \in FrequencyTexts }
    \cup { "AF=" \o a \o "," \o b : a \in FrequencyTexts, b \in FrequencyTexts }

HasAF(line, var) ==
    line.info \in { "DP=" \o ToString(var.coverage) \o ";" \o af : af \in AFEntries }

\* C17: INFO has DP=<coverage>, and an AF entry after it exactly for a
\* heterozygous call whose frequencies are known.
C17_InfoOfLine ==
    \A i \in WrittenLines :
        LET var == vcfVariants[i]
            line == vcf._vcfFile[i]
        IN  /\ \/ line.info = "DP=" \o ToString(var.coverage)
               \/ HasAF(line, var)
            /\ HasAF(line, var)
                 <=> /\ var.isHeterozygous
                     /\ ~ IsNoValue(var.frequency1)
                     /\ ~ IsNoValue(var.frequency2)

\* a heterozygous line with the frequencies of its two alleles
C17_Witness ==
    /\ vpc = "written"
    /\ \E i \in DOMAIN vcf._vcfFile :
          /\ vcfVariants[i].isHeterozygous
          /\ vcfVariants[i].frequency1 = Some(1) /\ vcfVariants[i].frequency2 = Some(2)
          /\ vcf._vcfFile[i].info = "DP=12;AF=0.333,0.667"

(***************************************************************************)
(* C18: a contig left accumulating when the collector shuts down.          *)
(***************************************************************************)
\* the contig has received a chunk and has not been flushed
Accumulating(refId) ==
    /\ refId \in DOMAIN collector.consensusChunksByRefId
    /\ collector.consensusChunksByRefId[refId] # << >>
    /\ DictGet(collector.referenceBasesProcessedById, refId) # RequiredBases(refId)

\* something other than routine information was logged
FailureReported == \E i \in DOMAIN collector.log : collector.log[i].level # "info"

\* C18: when the collector has shut down with a contig still accumulating,
\* a failure has been reported to the user.
C18_IncompleteContigReported ==
    (cpc = "finished" /\ IsBase /\ \E refId \in RefIds : Accumulating(refId))
        => FailureReported

(***************************************************************************)
(* C19: items left on the channel after the last sentinel.                 *)
(***************************************************************************)
AccumulatedState ==
    << collector.referenceBasesProcessedById, collector.variantsByRefId,
       collector.consensusChunksByRefId, collector.allVariants, collector.consensusChunks >>

IsPrefix(a, b) == Len(a) <= Len(b) /\ SubSeq(b, 1, Len(a)) = a

\* a step taken once numWorkers sentinels are counted
C19_StepAfterAllSentinels ==
    sentinelsReceived = NumWorkers =>
        /\ AccumulatedState' = AccumulatedState
        /\ received' = received
        /\ resultsQueue' = resultsQueue
        /\ IsPrefix(collector.calls, collector'.calls)
        /\ IsBase => collector'.calls = collector.calls

\* C19: once the numWorkers-th sentinel is dequeued, nothing is taken from the
\* channel, and basesProcessed, the chunk and variant collections and the
\* records already written stay as they are.
C19_AfterAllSentinels == [][C19_StepAfterAllSentinels]_vars

\* the collector has finished and a result is still on the channel
C19_Witness ==
    /\ cpc = "finished"
    /\ sentinelsReceived = NumWorkers
    /\ ResultItems # {}

(***************************************************************************)
(* C20: what the workers pop and push.                                     *)
(***************************************************************************)
\* what holds of the pops and pushes made so far
C20_Counts ==
    /\ \A w \in Workers :
          /\ hist.markers[w] <= 1
          /\ hist.afterMarker[w] = 0
          /\ hist.markers[w] = 1 =>
                /\ workQueue = << >>
                /\ wpc[w] = "done"
                /\ wtask[w] = NoWindow
    /\ \A window \in DOMAIN hist.popped :
          /\ hist.popped[window] <= 1
          /\ hist.results[window] <= hist.popped[window]
          /\ hist.popped[window] = 1 <=> window \notin Range(workQueue)
          /\ (hist.popped[window] = 1 /\ hist.results[window] = 0)
                => Cardinality({ w \in Workers : wtask[w] = window }) = 1
    /\ DOMAIN hist.popped = Range(AllChunks(referenceWindows))

\* every window has its result and every worker has pushed its marker
C20_AllPushed ==
    /\ \A w \in Workers : hist.markers[w] = 1
    /\ \A window \in DOMAIN hist.results : hist.results[window] = 1

\* C20: every worker pushes one marker, after the task source is exhausted
\* and after its last result, and nothing afterwards; every window is popped
\* by one worker and yields one result; in the end the channel has received
\* one result per window and numWorkers markers.
C20_WorkerProtocol == [] C20_Counts /\ <> C20_AllPushed

\* all markers pushed, after both workers have pushed results
C20_Witness ==
    /\ C20_AllPushed
    /\ Cardinality(DOMAIN hist.results) >= 3
    /\ \A w \in Workers : wpc[w] = "done"

(***************************************************************************)
(* C21: nobody waits for ever, whatever the size of the result channel.    *)
(***************************************************************************)
ChannelEmpty == QueuedItems(resultsQueue) = 0

AllWorkersDone == \A w \in Workers : wpc[w] = "done"

\* who can be waiting, and for what
C21_WaitsOnlyOnChannel ==
    /\ \A w \in Workers :
          (wpc[w] # "done" /\ ~ ENABLED WorkerStep(w)) => ~ HasRoom(resultsQueue, queueSize)
    /\ (cpc # "finished" /\ ~ ENABLED CollectorStep) => ChannelEmpty
    /\ ~ ENABLED Next => (AllWorkersDone /\ cpc = "finished")

\* C21: a worker waits only for room on the channel and the collector only
\* for an item on it, no state short of the end is stuck, and every worker
\* eventually pushes its marker and the collector eventually terminates.
C21_NoDeadlock ==
    /\ [] C21_WaitsOnlyOnChannel
    /\ <> (AllWorkersDone /\ cpc = "finished" /\ \A w \in Workers : hist.markers[w] = 1)

\* a worker waits with a result in hand on a full channel while the other
\* still has a task to pop
C21_Witness ==
    /\ queueSize > 0
    /\ QueuedItems(resultsQueue) = queueSize
    /\ workQueue # << >>
    /\ \E w \in Workers : wpc[w] = "busy" /\ ~ ENABLED WorkerStep(w)

(***************************************************************************)
(* C22: the consensus of each sub-interval and of the window.              *)
(***************************************************************************)
\* the alignments of the window that span the interval and have read content
SpanningWithContent(interval) ==
    { j \in DOMAIN reads :
        /\ reads[j][1] <= interval[1]
        /\ reads[j][2] >= interval[2]
        /\ ~ reads[j][3] }

\* C22: a sub-interval is given to the consensus algorithm exactly when at
\* least minPoaCoverage clipped, non-stumpy alignments span it; otherwise it
\* gets a placeholder with confidence 0 at every position, as long as its
\* sequence; the window consensus is the sub-interval results concatenated
\* in the order of the sorted intervals.
C22_SubIntervalConsensus ==
    /\ \A i \in DOMAIN subConsensi :
          LET interval == allIntervals[i]
              sub == subConsensi[i]
          IN  /\ sub.refWindow = << refWindow[1], interval[1], interval[2] >>
              /\ sub.by = "quiver"
                   <=> Cardinality(SpanningWithContent(interval)) >= minPoaCoverage
              /\ sub.by = "quiver" =>
                   /\ Len(sub.sequence) = IntervalLength(interval)
                   /\ \A k \in DOMAIN sub.sequence : sub.sequence[k] # NoCallBase
              /\ sub.by # "quiver" =>
                   /\ IsPlaceholder(sub)
                   /\ Len(sub.confidence) = Len(sub.sequence)
    /\ apc = "returned" =>
          /\ Len(subConsensi) = Len(allIntervals)
          /\ \A i \in 1 .. (Len(allIntervals) - 1) : allIntervals[i][1] < allIntervals[i + 1][1]
          /\ windowCss.refWindow = refWindow
          /\ windowCss.sequence = Flatten([ i \in DOMAIN subConsensi |-> subConsensi[i].sequence ])
          /\ windowCss.confidence
               = Flatten([ i \in DOMAIN subConsensi |-> subConsensi[i].confidence ])
          /\ \A i \in DOMAIN subConsensi : \A k \in DOMAIN subConsensi[i].sequence :
                LET at == k + allIntervals[i][1] - refWindow[2]
                IN  /\ windowCss.sequence[at] = subConsensi[i].sequence[k]
                    /\ windowCss.confidence[at] = subConsensi[i].confidence[k]

\* a window returned as a real consensus followed by a placeholder, with an
\* alignment without read content among those over the placeholder
C22_Witness ==
    /\ apc = "returned"
    /\ Len(subConsensi) >= 2
    /\ subConsensi[1].by = "quiver"
    /\ subConsensi[2].by = "noEvidence"
    /\ \E j \in DOMAIN reads : reads[j][3] /\ reads[j][2] > allIntervals[2][1]

(***************************************************************************)
(* C23: the variants handed over at a contig's completion flush.           *)
(***************************************************************************)
\* the positions in collector.calls of the calls of a kind for a contig
CallIndexes(refId, op) ==
    { i \in DOMAIN collector.calls :
        /\ collector.calls[i].op = op
        /\ IF op = "writeVariants" THEN collector.calls[i].refId = refId
           ELSE collector.calls[i].span[1] = refId }

\* the variants of the results received for a contig
ReceivedVariants(refId) ==
    Flatten([ i \in DOMAIN ReceivedOf(refId) |->
                ClipVariants(VariantsInWindow(enlargedReferenceWindow(ReceivedOf(refId)[i],
                                                                     referenceChunkOverlap)),
                             ReceivedOf(refId)[i][2], ReceivedOf(refId)[i][3]) ])

VariantWriters == outputs \cap { "gff", "vcf" }

\* C23: on the completion flush each enabled variant writer is handed, once,
\* exactly the variants accumulated for the contig, sorted, before any of the
\* contig's sequence records; without a variant writer nothing is handed over.
C23_VariantsHandedOverAtFlush ==
    IsBase =>
      \A refId \in RefIds :
        LET handovers == CallIndexes(refId, "writeVariants")
        IN  /\ flushCount[refId] = 0 => handovers = {}
            /\ VariantWriters = {} => handovers = {}
            /\ flushCount[refId] = 1 =>
                  \A writer \in VariantWriters :
                      Cardinality({ i \in handovers : collector.calls[i].writer = writer }) = 1
            /\ \A i \in handovers :
                  LET variants == collector.calls[i].variants
                  IN  /\ collector.calls[i].writer \in VariantWriters
                      /\ Range(variants) = Range(ReceivedVariants(refId))
                      /\ Len(variants) = Len(ReceivedVariants(refId))
                      /\ \A a \in DOMAIN variants : \A b \in DOMAIN variants :
                            a < b => variants[a].refStart < variants[b].refStart
                      /\ \A j \in CallIndexes(refId, "writeRecord") : i < j

\* both variant writers were handed the variants of a contig whose windows
\* arrived out of order, ahead of its sequence records
C23_Witness ==
    /\ IsBase
    /\ \E refId \in RefIds :
          /\ Cardinality(CallIndexes(refId, "writeVariants")) = 2
          /\ CallIndexes(refId, "writeRecord") # {}
          /\ Len(ReceivedVariants(refId)) >= 2
          /\ ReceivedVariants(refId)[1].refStart > ReceivedVariants(refId)[2].refStart

(***************************************************************************)
(* C24: the lifetime of a contig's accumulator.                            *)
(***************************************************************************)
\* the contig has received a chunk and the bases received are not all it needs
StillAccumulating(refId) ==
    /\ ReceivedOf(refId) # << >>
    /\ SumLengths(ReceivedOf(refId)) # RequiredBases(refId)

\* C24: the collector holds a chunk collection and a variant collection for
\* exactly the contigs that have received a chunk and are not flushed yet,
\* with one chunk per result received; whatever writers are enabled.
C24_AccumulatorLifetime ==
    (IsBase /\ cpc # "start") =>
      \A refId \in RefIds :
        /\ refId \in DOMAIN collector.consensusChunksByRefId <=> StillAccumulating(refId)
        /\ refId \in DOMAIN collector.variantsByRefId <=> StillAccumulating(refId)
        /\ StillAccumulating(refId) =>
              /\ Len(collector.consensusChunksByRefId[refId]) = Len(ReceivedOf(refId))
              /\ collector.variantsByRefId[refId] = ReceivedVariants(refId)

\* without any writer, one contig is flushed and gone while another is still
\* accumulating
C24_Witness ==
    /\ IsBase
    /\ outputs = {}
    /\ \E done \in RefIds : \E open \in RefIds :
          /\ ReceivedOf(done) # << >>
          /\ ~ StillAccumulating(done)
          /\ done \notin DOMAIN collector.consensusChunksByRefId
          /\ done \notin DOMAIN collector.variantsByRefId
          /\ StillAccumulating(open)
          /\ open \in DOMAIN collector.consensusChunksByRefId

(***************************************************************************)
(* C25: the count of bases of a contig only ever grows.                    *)
(***************************************************************************)
\* the sums of bases after each result received for the contig
RunningSums(refId) ==
    [ k \in 1 .. Len(ReceivedOf(refId)) |-> SumLengths(SubSeq(ReceivedOf(refId), 1, k)) ]

\* the running sum went beyond the required bases and never was equal to them
SteppedPast(refId) ==
    /\ \E k \in DOMAIN RunningSums(refId) : RunningSums(refId)[k] > RequiredBases(refId)
    /\ \A k \in DOMAIN RunningSums(refId) : RunningSums(refId)[k] # RequiredBases(refId)

\* a window was received that repeats or overlaps an earlier one
ReceivedOverlap ==
    \E i \in DOMAIN received : \E j \in DOMAIN received :
        i < j /\ windowsIntersect(received[i], received[j])

C25_FlushedAtMostOnce ==
    \A refId \in RefIds :
        /\ flushCount[refId] <= 1
        /\ SteppedPast(refId) => flushCount[refId] = 0
        /\ cpc = "loop" =>
              collector.referenceBasesProcessedById[refId] = SumLengths(ReceivedOf(refId))

C25_CountGrows ==
    cpc = "loop" =>
      \A refId \in RefIds :
        collector'.referenceBasesProcessedById[refId]
            >= collector.referenceBasesProcessedById[refId]

\* C25: over results for any windows of positive length, repeated and
\* overlapping ones included, no step lowers a contig's count of bases, which
\* stays the sum of all the windows received, flushed or not; a contig is
\* flushed at most once, and never when its sum went past the required bases
\* without being equal to them.
C25_BasesNeverReset == [] C25_FlushedAtMostOnce /\ [][C25_CountGrows]_vars

\* a contig was flushed and then got a result for a window it already had:
\* its count is beyond the required bases and it stays flushed once
C25_Witness ==
    \E refId \in RefIds :
        /\ flushCount[refId] = 1
        /\ ReceivedOverlap
        /\ collector.referenceBasesProcessedById[refId] > RequiredBases(refId)
        /\ refId \in DOMAIN collector.consensusChunksByRefId

(***************************************************************************)
(* C26: the Quiver collector writes nothing until the run is over, and     *)
(* then one record per contig with chunks and the variants that pass the   *)
(* thresholds.                                                             *)
(***************************************************************************)
\* the windows received for the contig, by ascending start
ReceivedAscending(refId) == Sorted(ReceivedOf(refId), ReceivedOf(refId))

\* the writer calls of one writer, in the order made
CallsTo(writer) == SelectSeq(collector.calls, LAMBDA c : c.writer = writer)

\* a variant passes both thresholds
PassesThresholds(v) ==
    v.confidence > variantConfidenceThreshold /\ v.coverage > variantCoverageThreshold

\* the variants of every result received
AllReceivedVariants == UNION { Range(ReceivedVariants(refId)) : refId \in RefIds }

\* C26: with the Quiver collector no writer call is made before the collector
\* has finished, which is after NumWorkers termination markers; once finished,
\* each requested sequence writer has one record per contig that received a
\* chunk, holding the chunks by ascending refStart, and the GFF writer, if
\* requested, has exactly the received variants above both thresholds, contig
\* by contig and by ascending position within a contig.
C26_QuiverWritesAtFinish ==
    ~IsBase =>
      /\ cpc # "finished" => collector.calls = << >>
      /\ cpc = "finished" =>
            /\ sentinelsReceived = NumWorkers
            /\ \A c \in Range(collector.calls) : c.writer \in outputs /\ c.writer # "vcf"
            /\ \A writer \in { "fasta", "fastq" } \cap outputs :
                  LET records == CallsTo(writer)
                  IN  /\ { r.refId : r \in Range(records) }
                           = { refId \in RefIds : ReceivedOf(refId) # << >> }
                      /\ \A a, b \in DOMAIN records :
                            records[a].refId = records[b].refId => a = b
                      /\ \A a \in DOMAIN records :
                            LET ws == ReceivedAscending(records[a].refId)
                            IN  records[a].sequence
                                  = Flatten([ i \in DOMAIN ws |-> onChunk(ws[i]).consensus ])
            /\ "gff" \in outputs =>
                  LET written == CallsTo("gff")
                  IN  /\ { written[a].variant : a \in DOMAIN written }
                           = { v \in AllReceivedVariants : PassesThresholds(v) }
                      /\ \A a, b \in DOMAIN written :
                            a < b =>
                              \/ written[a].variant.refId < written[b].variant.refId
                              \/ /\ written[a].variant.refId = written[b].variant.refId
                                 /\ written[a].variant.refStart < written[b].variant.refStart

\* the Quiver collector finished with chunks that arrived out of order for one
\* contig, wrote its record, wrote a variant, and left out a received variant
\* that sits at a threshold
C26_Witness ==
    /\ ~IsBase
    /\ cpc = "finished"
    /\ outputs = { "gff", "fastq" }
    /\ \E refId \in RefIds :
          /\ Len(ReceivedOf(refId)) >= 2
          /\ ReceivedOf(refId) # ReceivedAscending(refId)
          /\ \E r \in Range(CallsTo("fastq")) : r.refId = refId
    /\ CallsTo("gff") # << >>
    /\ \E v \in AllReceivedVariants :
          /\ v.confidence = variantConfidenceThreshold
          /\ \A c \in Range(CallsTo("gff")) : c.variant # v

(***************************************************************************)
(* C27: ALT and AF of a heterozygous call.                                 *)
(***************************************************************************)
\* the two called alleles of a heterozygous call, in order, each with its
\* frequency
CalledAlleles(var) ==
    << [ seq |-> var.readSeq1, frequency |-> var.frequency1 ],
       [ seq |-> Value(var.readSeq2), frequency |-> var.frequency2 ] >>

\* the line lists these alleles in ALT (each after the prefix) and, when it
\* has an AF entry, their frequencies over frequency1 + frequency2 in AF:
\* one value per allele, in the same order
ListsAllelesAndFrequencies(line, var, alleles, prefix) ==
    /\ line.alt = JoinText([ i \in DOMAIN alleles |-> prefix \o alleles[i].seq ], ",")
    /\ HasAF(line, var) =>
          line.info = "DP=" \o ToString(var.coverage) \o ";AF="
                        \o JoinText([ i \in DOMAIN alleles |->
                                        Format3g(Value(alleles[i].frequency),
                                                 Value(var.frequency1) + Value(var.frequency2)) ],
                                    ",")

\* C27: the line of a heterozygous substitution lists in ALT the called
\* alleles that differ from the reference allele, readSeq1 before readSeq2,
\* and its AF entry has the frequencies of exactly these alleles, in that
\* order, over frequency1 + frequency2; with the two alleles of a heterozygous
\* insertion or deletion, every AF entry has as many values as ALT has alleles.
C27_AltAndFrequencies ==
    \A i \in WrittenLines :
        LET var     == vcfVariants[i]
            line    == vcf._vcfFile[i]
            nonRef  == SelectSeq(CalledAlleles(var), LAMBDA a : a.seq # var.refSeq)
        IN  var.isHeterozygous =>
              IF IsSubstitution(var)
              THEN /\ ListsAllelesAndFrequencies(line, var, nonRef, "")
                   /\ Len(nonRef) = (IF var.refSeq \in { var.readSeq1, Value(var.readSeq2) }
                                     THEN 1 ELSE 2)
              ELSE ListsAllelesAndFrequencies(line, var, CalledAlleles(var), var.readPrev)

\* a heterozygous substitution whose first allele is the reference allele:
\* one allele in ALT, one frequency in AF
C27_Witness ==
    /\ vpc = "written"
    /\ \E i \in DOMAIN vcf._vcfFile :
          /\ vcfVariants[i].isHeterozygous
          /\ vcfVariants[i].refSeq = "A"
          /\ vcfVariants[i].readSeq1 = "A"
          /\ vcfVariants[i].readSeq2 = Some("G")
          /\ vcfVariants[i].frequency1 = Some(1) /\ vcfVariants[i].frequency2 = Some(2)
          /\ vcf._vcfFile[i].alt = "G"
          /\ vcf._vcfFile[i].info = "DP=12;AF=0.667"

=============================================================================
